---- MODULE Spec2Model ----
(***************************************************************************)
(* Model of the ksni tray service engine.                                  *)
(*                                                                         *)
(*   Spec        the engine of src/src/service.rs: one service thread that *)
(*               serves the bus (Activate, SecondaryActivate, Scroll,      *)
(*               Event, GetProperty) and polls the shared tray status, and *)
(*               handle threads that share the tray behind its mutex.      *)
(*   SpecHandle  the blocking handle of src/src/blocking.rs in front of    *)
(*               the request channel of src/src/compat.rs.                 *)
(*                                                                         *)
(* Row indices are 0-based as in the source; Row(table, i) reads row i.    *)
(***************************************************************************)
EXTENDS Integers, Sequences, FiniteSets, TLC

\* ------------------------------------------------------------------ bounds
\* Mutations of the tray (by remote calls and by handles) in one behaviour.
MaxMutations == 2
\* Ids a remote peer may name lie in -1 .. MaxId.
MaxId == 12
\* Calls the handles may issue in one behaviour of SpecHandle.
MaxCalls == 3
\* Clones of the handle.
NumHandles == 2
\* Entries of one GetGroupProperties or EventGroup request.
MaxBatch == 2

\* Option<T>: None, or Some(v)
None == <<>>
Some(v) == <<v>>

\* ------------------------------------------------------- menu.rs: the data

\* ToggleState as i32
ToggleStateOff == 0
ToggleStateOn == 1
ToggleStateIndeterminate == -1

\* MenuItem variants; every variant carries the same fields so that items
\* compare; a variant reads only the fields it has in the source.
MkItem(kind, label, checked, act, submenu) ==
    [kind |-> kind, label |-> label, enabled |-> TRUE, visible |-> TRUE,
     icon_name |-> "", checked |-> checked, activate |-> act,
     submenu |-> submenu]

StandardItem(label, act) == MkItem("Standard", label, FALSE, act, <<>>)
Sepatator == MkItem("Sepatator", "", FALSE, "nop", <<>>)
CheckmarkItem(label, checked, act) == MkItem("Checkmark", label, checked, act, <<>>)
SubMenu(label, submenu) == MkItem("SubMenu", label, FALSE, "nop", submenu)
RadioGroup == MkItem("RadioGroup", "", FALSE, "nop", <<>>)

RawMenuItemDefault ==
    [type |-> "standard", label |-> "", enabled |-> TRUE, visible |-> TRUE,
     icon_name |-> "", toggle_type |-> "", toggle_state |-> ToggleStateIndeterminate,
     on_clicked |-> "nop"]

RawFromStandard(item) ==
    [RawMenuItemDefault EXCEPT !.label = item.label, !.enabled = item.enabled,
        !.visible = item.visible, !.icon_name = item.icon_name,
        !.on_clicked = item.activate]

RawFromSubMenu(item) ==
    [RawMenuItemDefault EXCEPT !.label = item.label, !.enabled = item.enabled,
        !.visible = item.visible, !.icon_name = item.icon_name]

RawFromCheckmark(item) ==
    [RawMenuItemDefault EXCEPT !.label = item.label, !.enabled = item.enabled,
        !.visible = item.visible, !.icon_name = item.icon_name,
        !.toggle_type = "checkmark",
        !.toggle_state = IF item.checked THEN ToggleStateOn ELSE ToggleStateOff,
        !.on_clicked = item.activate]

RawSepatator == [RawMenuItemDefault EXCEPT !.type = "separator"]

\* A row of the flat table: (RawMenuItem, Vec<usize>)
MkRow(item, childs) == [item |-> item, childs |-> childs]
Row(table, i) == table[i + 1]

\* list.push(row); list[parent_index].1.push(index)
PushRowFront(rows, raw, parent_index) ==
    LET index == Len(rows)
        pushed == Append(rows, MkRow(raw, <<>>))
    IN [pushed EXCEPT ![parent_index + 1].childs = <<index>> \o @]

PushRow(list, raw, parent_index) ==
    LET index == Len(list)
        pushed == Append(list, MkRow(raw, <<>>))
    IN [pushed EXCEPT ![parent_index + 1].childs = Append(@, index)]

RECURSIVE FlattenOuter(_, _)
RECURSIVE FlattenInner(_, _, _, _)

\* while let Some((current_menu, parent_index)) = stack.pop()
FlattenOuter(list, stack) ==
    IF stack = <<>> THEN list
    ELSE LET top == stack[Len(stack)]
         IN FlattenInner(list, SubSeq(stack, 1, Len(stack) - 1), top[1], top[2])

\* while !current_menu.is_empty() { match current_menu.remove(0) ... }
FlattenInner(list, stack, current_menu, parent_index) ==
    IF current_menu = <<>> THEN FlattenOuter(list, stack)
    ELSE LET item == Head(current_menu)
             rest == Tail(current_menu)
         IN CASE item.kind = "Standard" ->
                   FlattenInner(PushRow(list, RawFromStandard(item), parent_index),
                                stack, rest, parent_index)
              [] item.kind = "Sepatator" ->
                   FlattenInner(PushRow(list, RawSepatator, parent_index),
                                stack, rest, parent_index)
              [] item.kind = "Checkmark" ->
                   FlattenInner(PushRow(list, RawFromCheckmark(item), parent_index),
                                stack, rest, parent_index)
              [] item.kind = "SubMenu" ->
                   LET index == Len(list)
                       pushed == PushRow(list, RawFromSubMenu(item), parent_index)
                   IN IF item.submenu /= <<>>
                      THEN FlattenOuter(pushed,
                               stack \o << <<rest, parent_index>>, <<item.submenu, index>> >>)
                      ELSE FlattenInner(pushed, stack, rest, parent_index)
              [] item.kind = "RadioGroup" ->
                   FlattenInner(list, stack, rest, parent_index)

menu_flatten(items) ==
    FlattenOuter(<< MkRow(RawMenuItemDefault, <<>>) >>, << <<items, 0>> >>)


\* ------------------------------------------------ menu.rs: item properties
PropNames == <<"type", "label", "enabled", "visible", "icon-name",
               "toggle-type", "toggle-state">>

PropValue(item, name) ==
    CASE name = "type" -> item.type
      [] name = "label" -> item.label
      [] name = "enabled" -> item.enabled
      [] name = "visible" -> item.visible
      [] name = "icon-name" -> item.icon_name
      [] name = "toggle-type" -> item.toggle_type
      [] name = "toggle-state" -> item.toggle_state

Range(seq) == {seq[i] : i \in DOMAIN seq}

\* if_not_default_then_insert!: a property is in the map iff the filter lets
\* it through and its value is not the default's.
to_dbus_map(item, filter) ==
    LET keep == {n \in Range(PropNames) :
                    /\ (filter = {} \/ n \in filter)
                    /\ PropValue(item, n) /= PropValue(RawMenuItemDefault, n)}
    IN [n \in keep |-> PropValue(item, n)]

\* RawMenuItem::diff(old, new): the properties whose value changed, as the
\* map of the new non-default values and the list of those back at default.
diff(old, new) ==
    LET Changed(n) == PropValue(old, n) /= PropValue(new, n)
        IsUpd(n) == Changed(n) /\ PropValue(new, n) /= PropValue(RawMenuItemDefault, n)
        IsRem(n) == Changed(n) /\ PropValue(new, n) = PropValue(RawMenuItemDefault, n)
        upd == {n \in Range(PropNames) : IsUpd(n)}
        rem == SelectSeq(PropNames, IsRem)
    IN IF upd = {} /\ rem = <<>> THEN None
       ELSE Some([updated_props |-> [n \in upd |-> PropValue(new, n)],
                  removed_props |-> rem])

\* ------------------------------------------------------- the tray (trait Tray)
\* The application state behind Handle.model; its accessors read the fields
\* and menu() builds the tree from shape and checked, as examples/example.rs
\* builds its menu from its fields.
Shapes == 0 .. 6

MenuOf(shape, checked) ==
    LET chk == CheckmarkItem("Checkable", checked, "toggle") IN
    CASE shape = 0 -> <<>>
      [] shape = 1 -> << chk, StandardItem("a", "nop") >>
      [] shape = 2 -> << chk, SubMenu("a", << StandardItem("a1", "nop") >>) >>
      [] shape = 3 -> << chk, StandardItem("b", "next") >>
      [] shape = 4 -> << SubMenu("s", << chk, StandardItem("a", "nop") >>), Sepatator >>
      [] shape = 5 -> << StandardItem("a", "nop"), chk, RadioGroup >>
      [] shape = 6 -> << SubMenu("s", << chk >>), StandardItem("a", "next"), Sepatator >>

menu(t) == MenuOf(t.shape, t.checked)

TrayDefault ==
    [category |-> "ApplicationStatus", title |-> "", status |-> "Active",
     window_id |-> 0, icon_theme_path |-> "", icon |-> "", overlay_icon |-> "",
     attention_icon |-> "", tool_tip |-> "", text_direction |-> "ltr",
     shape |-> 0, checked |-> FALSE]

\* Closures the application hands to update(), to the click handlers and to
\* activate / secondary_activate / scroll.
Mutations ==
    {[op |-> "nop", arg |-> 0], [op |-> "toggle", arg |-> 0], [op |-> "next", arg |-> 0]}
    \cup {[op |-> "shape", arg |-> s] : s \in {0, 4}}
    \cup {[op |-> "title", arg |-> "MyTray"], [op |-> "status", arg |-> "Passive"],
          [op |-> "tool_tip", arg |-> "x"], [op |-> "icons", arg |-> "x"],
          [op |-> "window", arg |-> "rtl"]}

Apply(f, t) ==
    CASE f.op = "nop" -> t
      [] f.op = "toggle" -> [t EXCEPT !.checked = ~@]
      [] f.op = "next" -> [t EXCEPT !.shape = (@ + 1) % Cardinality(Shapes)]
      [] f.op = "shape" -> [t EXCEPT !.shape = f.arg]
      [] f.op = "title" -> [t EXCEPT !.title = f.arg]
      [] f.op = "status" -> [t EXCEPT !.status = f.arg]
      [] f.op = "tool_tip" -> [t EXCEPT !.tool_tip = f.arg]
      [] f.op = "icons" -> [t EXCEPT !.icon_theme_path = f.arg, !.icon = f.arg,
                                     !.overlay_icon = f.arg, !.attention_icon = f.arg]
      [] f.op = "window" -> [t EXCEPT !.category = "Hardware", !.window_id = 1,
                                      !.text_direction = f.arg]

\* The closure a click handler tag stands for.
Handler(tag) == [op |-> tag, arg |-> 0]


\* ------------------------------------------------ service.rs: PropertiesCache
\* hash_of: equal values have equal fingerprints; the 64-bit DefaultHasher is
\* taken to be collision-free on the values of the model.
hash_of(v) == [siphash |-> v]

PropertiesCacheNew(t) ==
    [category |-> t.category, title |-> hash_of(t.title), status |-> t.status,
     window_id |-> t.window_id, icon_theme_path |-> hash_of(t.icon_theme_path),
     icon |-> hash_of(t.icon), overlay_icon |-> hash_of(t.overlay_icon),
     attention_icon |-> hash_of(t.attention_icon), tool_tip |-> hash_of(t.tool_tip),
     text_direction |-> t.text_direction]

\* Each *_changed compares the cached value with the tray's, stores the new
\* one when they differ, and reports the change: [cache, ret].
category_changed(c, t) ==
    IF c.category /= t.category
    THEN [cache |-> [c EXCEPT !.category = t.category], ret |-> Some(t.category)]
    ELSE [cache |-> c, ret |-> None]

\* Faulty variant of title_changed: it reports a change without comparing.
title_changed_uncompared(c, t) ==
    [cache |-> [c EXCEPT !.title = hash_of(t.title)], ret |-> TRUE]

title_changed(c, t) ==
    LET hash == hash_of(t.title) IN
    IF c.title /= hash THEN [cache |-> [c EXCEPT !.title = hash], ret |-> TRUE]
    ELSE [cache |-> c, ret |-> FALSE]

\* Faulty variant of status_changed: a changed title counts as a changed status.
status_changed_with_title(c, t) ==
    IF c.status /= t.status \/ c.title /= hash_of(t.title)
    THEN [cache |-> [c EXCEPT !.status = t.status], ret |-> Some(t.status)]
    ELSE [cache |-> c, ret |-> None]

status_changed(c, t) ==
    IF c.status /= t.status
    THEN [cache |-> [c EXCEPT !.status = t.status], ret |-> Some(t.status)]
    ELSE [cache |-> c, ret |-> None]

window_id_changed(c, t) ==
    IF c.window_id /= t.window_id
    THEN [cache |-> [c EXCEPT !.window_id = t.window_id], ret |-> Some(t.window_id)]
    ELSE [cache |-> c, ret |-> None]

icon_theme_path_changed(c, t) ==
    LET hash == hash_of(t.icon_theme_path) IN
    IF c.icon_theme_path /= hash
    THEN [cache |-> [c EXCEPT !.icon_theme_path = hash], ret |-> Some(t.icon_theme_path)]
    ELSE [cache |-> c, ret |-> None]

icon_changed(c, t) ==
    LET hash == hash_of(t.icon) IN
    IF c.icon /= hash THEN [cache |-> [c EXCEPT !.icon = hash], ret |-> TRUE]
    ELSE [cache |-> c, ret |-> FALSE]

overlay_icon_changed(c, t) ==
    LET hash == hash_of(t.overlay_icon) IN
    IF c.overlay_icon /= hash THEN [cache |-> [c EXCEPT !.overlay_icon = hash], ret |-> TRUE]
    ELSE [cache |-> c, ret |-> FALSE]

attention_icon_changed(c, t) ==
    LET hash == hash_of(t.attention_icon) IN
    IF c.attention_icon /= hash
    THEN [cache |-> [c EXCEPT !.attention_icon = hash], ret |-> TRUE]
    ELSE [cache |-> c, ret |-> FALSE]

tool_tip_changed(c, t) ==
    LET hash == hash_of(t.tool_tip) IN
    IF c.tool_tip /= hash THEN [cache |-> [c EXCEPT !.tool_tip = hash], ret |-> TRUE]
    ELSE [cache |-> c, ret |-> FALSE]

text_direction_changed(c, t) ==
    IF c.text_direction /= t.text_direction
    THEN [cache |-> [c EXCEPT !.text_direction = t.text_direction],
          ret |-> Some(t.text_direction)]
    ELSE [cache |-> c, ret |-> None]

\* ------------------------------------------------------ messages to the bus
Msg(sig, body) == [sig |-> sig, body |-> body]
Signal(sig) == Msg(sig, <<>>)

\* i32::to_string: the decimal text of n
to_string(n) == [decimal |-> n]

\* tray::Status -> menu::Status
MenuStatusOf(tray_status) ==
    IF tray_status = "NeedsAttention" THEN "notice" ELSE "normal"

\* Variant(Box::new(v)): a value with its D-Bus type, "s" a string, "i" an
\* i32, "as" an array of strings.
Variant(type, v) == [type |-> type, v |-> v]

\* The property getters of the item object (impl StatusNotifierItem): category
\* as its text, window_id as the i32 itself, icon_theme_path as the string.
StatusNotifierItemGet(t, name) ==
    CASE name = "Category" -> Variant("s", t.category)
      [] name = "WindowId" -> Variant("i", t.window_id)
      [] name = "IconThemePath" -> Variant("s", t.icon_theme_path)

\* The property getters of the menu object (impl Dbusmenu): text_direction as
\* its text, the menu status of the tray's status, icon_theme_path as the
\* vector of the path, empty for the empty path.
DbusmenuGet(t, name) ==
    CASE name = "TextDirection" -> Variant("s", t.text_direction)
      [] name = "Status" -> Variant("s", MenuStatusOf(t.status))
      [] name = "IconThemePath" ->
            Variant("as", IF t.icon_theme_path = "" THEN <<>>
                          ELSE << t.icon_theme_path >>)

\* A changed-properties map, as the sequence of its (name, value) entries.
Entry(name, value) == << [name |-> name, value |-> value] >>
If(cond, seq) == IF cond THEN seq ELSE <<>>

\* InnerState::update_properties: [cache, msgs]
update_properties(c0, t) ==
    LET td == text_direction_changed(c0, t)
        st == status_changed(td.cache, t)
        itp == icon_theme_path_changed(st.cache, t)
        cat == category_changed(itp.cache, t)
        wid == window_id_changed(cat.cache, t)
        ttl == title_changed(wid.cache, t)
        ico == icon_changed(ttl.cache, t)
        ovl == overlay_icon_changed(ico.cache, t)
        att == attention_icon_changed(ovl.cache, t)
        tip == tool_tip_changed(att.cache, t)
        dbusmenu_changed ==
            If(td.ret /= None, Entry("TextDirection", Variant("s", t.text_direction)))
            \o If(st.ret /= None, Entry("Status", Variant("s", MenuStatusOf(t.status))))
            \o If(itp.ret /= None,
                  Entry("IconThemePath", Variant("s", t.icon_theme_path)))
        sni_changed ==
            If(itp.ret /= None,
               Entry("IconThemePath", Variant("as", << t.icon_theme_path >>)))
            \o If(cat.ret /= None, Entry("Category", Variant("s", t.category)))
            \o If(wid.ret /= None,
                  Entry("WindowId", Variant("s", to_string(t.window_id))))
        dbus_msgs ==
            If(st.ret /= None, << Msg("NewStatus", t.status) >>)
            \o If(dbusmenu_changed /= <<>>,
                  << Msg("PropertiesChanged",
                         [interface_name |-> "com.canonical.dbusmenu",
                          changed_properties |-> dbusmenu_changed]) >>)
            \o If(sni_changed /= <<>>,
                  << Msg("PropertiesChanged",
                         [interface_name |-> "org.kde.StatusNotifierItem",
                          changed_properties |-> sni_changed]) >>)
            \o If(ttl.ret, << Signal("NewTitle") >>)
            \o If(ico.ret, << Signal("NewIcon") >>)
            \o If(ovl.ret, << Signal("NewOverlayIcon") >>)
            \o If(att.ret, << Signal("NewAttentionIcon") >>)
            \o If(tip.ret, << Signal("NewToolTip") >>)
    IN [cache |-> tip.cache, msgs |-> dbus_msgs]


\* ----------------------------------------------------- service.rs: the state
VARIABLES
    tray,            \* Handle.model: the tray behind Arc<Mutex<T>>
    tray_status,     \* Handle.tray_status: "Idle", "NeedUpdate" or "Stop"
    menu_cache,      \* InnerState.menu_cache
    item_id_offset,  \* InnerState.item_id_offset
    revision,        \* InnerState.revision
    prop_cache,      \* InnerState.prop_cache
    pc,              \* where the service thread is
    emitted,         \* messages the running (or last) cycle handed to the connection
    reply,           \* the remote call that panicked, if one did
    cyc,             \* what the running (or last) cycle started from and did
    retired,         \* ids of non-root rows of the tables replaced by a layout change
    nmut,            \* mutations of the tray so far
    group            \* the running (or last) event_group call: its events, the
                     \* partition, the clicks done and how it ended

\* --------------------------------------------- blocking.rs: the handle's state
VARIABLES
    service,         \* where the service loop is: "running", "cycle", "closing",
                     \* "acked" or "stopped"
    strong,          \* strong references to the Service (Weak::upgrade succeeds iff > 0)
    queue,           \* the unbounded channel handle_tx -> handle_rx
    rx_open,         \* the receiver handle_rx is alive
    conn_open,       \* the connection to the bus is open
    state,           \* the tray inside the Service
    published,       \* the tray state of the last finished diff-and-notify cycle
    caller,          \* per handle clone: where its call is and what it returned
    inflight,        \* the request the service loop is working on
    applied,         \* update calls whose closure has run, with what it returned
    handed,          \* update calls whose notifications were handed to the transport
    ncalls           \* calls issued so far

\* ------------------------------- startup and the StatusNotifierWatcher's presence
VARIABLES
    assume_sni_available, \* TrayServiceBuilder.assume_sni_available
    bus,             \* the session bus: "online" (watcher and host), "no_host",
                     \* "absent" (no watcher) or "broken" (the call fails otherwise)
    first,           \* what the registration at startup returned, "none" before it
    spawned,         \* what spawn returned: "none" (not yet), "handle" or "error"
    actor,           \* the service loop: "none", "running", "stopped" or "failed"
    watcher,         \* "Unregistered", "Registered", "Offline" or "Failed"
    stop,            \* tray_status.stop() has been called
    signals,         \* NameOwnerChanged signals of the watcher's name not yet handled
    offline_calls,   \* calls of the tray's offline callback: reason and return value
    online_calls,    \* calls of the tray's online callback
    registrations,   \* calls of register_status_notifier_item
    appeared,        \* presence-appeared signals handled
    shut,            \* Handle::shutdown: "none", "requested" or "done" (awaiter complete)
    nchanges,        \* presence changes of the watcher since startup
    starter,         \* how the service was started: "run" (this thread) or "spawn"
    exit,            \* what TrayService::run returned: "none" (it has not), "Ok" or "Err"
    shut_at          \* the service loop's state when shutdown was requested

\* --------------------------------------------- menu.rs: a menu and its flat table
VARIABLES
    items,           \* the menu tree a Tray::menu returned
    list,            \* the table menu_flatten made of it, <<>> before the first call
    variant,         \* what to_dbusmenu_variant returned for the table, None before
    cycle,           \* the update_menu that followed a change of the menu, None before
    nflat            \* calls of menu_flatten so far

engine_vars == <<tray, tray_status, menu_cache, item_id_offset, revision,
                 prop_cache, pc, emitted, reply, cyc, retired, nmut, group>>
handle_vars == <<service, strong, queue, rx_open, conn_open, state, published,
                 caller, inflight, applied, handed, ncalls>>
watcher_vars == <<assume_sni_available, bus, first, spawned, actor, watcher,
                  stop, signals, offline_calls, online_calls, registrations,
                  appeared, shut, nchanges, starter, exit, shut_at>>
menu_vars == <<items, list, variant, cycle, nflat>>
vars == <<engine_vars, handle_vars, watcher_vars, menu_vars>>

\* ------------------------------------------ service.rs: identities of the rows
\* Faulty variants: id2index without the root's case, index2id without the offset.
id2index_unrooted(id) ==
    LET index == id - item_id_offset
    IN IF index > 0 THEN Some(index) ELSE None

index2id_unshifted(index) == index

id2index(id) ==
    IF id = 0 THEN Some(0)
    ELSE LET index == id - item_id_offset
         IN IF index > 0 THEN Some(index) ELSE None

index2id(index) ==
    IF index = 0 THEN 0 ELSE index + item_id_offset

\* ------------------------------------------------- service.rs: update_menu
\* old_menu.iter().chain(repeat(&(default, vec![]))): row index of the old
\* table, or the default childless row past its end.
OldAt(old_menu, index) ==
    IF index < Len(old_menu) THEN Row(old_menu, index)
    ELSE MkRow(RawMenuItemDefault, <<>>)

PushProps(acc, index, d) ==
    IF d = None THEN acc
    ELSE [acc EXCEPT
            !.updated_props =
                IF DOMAIN d[1].updated_props /= {}
                THEN Append(@, <<index2id(index), d[1].updated_props>>) ELSE @,
            !.removed_props =
                IF d[1].removed_props /= <<>>
                THEN Append(@, <<index2id(index), d[1].removed_props>>) ELSE @]

RECURSIVE DiffLoopNoBreak(_, _, _, _)
\* Faulty variant of DiffLoop: the loop goes on after a row whose childs differ.
DiffLoopNoBreak(old_menu, new_menu, index, acc) ==
    IF index >= Len(new_menu) THEN acc
    ELSE LET old == OldAt(old_menu, index)
             new == Row(new_menu, index)
             acc1 == [PushProps(acc, index, diff(old.item, new.item))
                        EXCEPT !.examined = index + 1]
         IN DiffLoopNoBreak(old_menu, new_menu, index + 1,
                            IF old.childs /= new.childs
                            THEN [acc1 EXCEPT !.layout_updated = TRUE]
                            ELSE acc1)

RECURSIVE DiffLoopBelowRoot(_, _, _, _)
\* Faulty variant of DiffLoop: the childs of the root row are not compared.
DiffLoopBelowRoot(old_menu, new_menu, index, acc) ==
    IF index >= Len(new_menu) THEN acc
    ELSE LET old == OldAt(old_menu, index)
             new == Row(new_menu, index)
             acc1 == [PushProps(acc, index, diff(old.item, new.item))
                        EXCEPT !.examined = index + 1]
         IN IF index > 0 /\ old.childs /= new.childs
            THEN [acc1 EXCEPT !.layout_updated = TRUE]
            ELSE DiffLoopBelowRoot(old_menu, new_menu, index + 1, acc1)

RECURSIVE DiffLoop(_, _, _, _)
\* for (index, (old, new)) in old.chain(..).zip(new).enumerate() { .. break }
DiffLoop(old_menu, new_menu, index, acc) ==
    IF index >= Len(new_menu) THEN acc
    ELSE LET old == OldAt(old_menu, index)
             new == Row(new_menu, index)
             acc1 == [PushProps(acc, index, diff(old.item, new.item))
                        EXCEPT !.examined = index + 1]
         IN IF old.childs /= new.childs
            THEN [acc1 EXCEPT !.layout_updated = TRUE]
            ELSE DiffLoop(old_menu, new_menu, index + 1, acc1)

DiffStart ==
    [updated_props |-> <<>>, removed_props |-> <<>>, layout_updated |-> FALSE,
     examined |-> 0]

\* Faulty variants of BumpOffset: the offset advanced by the new table's
\* length, and by the old table's length less the root.
BumpOffsetByNew(offset, old_menu, new_menu) == offset + Len(new_menu)

BumpOffsetLessRoot(offset, old_menu, new_menu) == offset + Len(old_menu) - 1

\* i32: the range of an identity and of the offset
I32Max == 2147483647
I32Min == -I32Max - 1

\* i32::checked_add(a, b) for b >= 0: None when a + b is past i32::MAX
checked_add(a, b) == IF a > I32Max - b THEN None ELSE Some(a + b)

\* a + b on i32, b >= 0, in a build without overflow checks: two's complement
wrapping_add(a, b) ==
    IF checked_add(a, b) = None THEN I32Min + (b - (I32Max - a) - 1) ELSE a + b

\* self.item_id_offset.set(self.item_id_offset.get() + old_menu.len() as i32):
\* the plain + wraps in a build without overflow checks and panics in a build
\* with them (UpdateMenuOverflow).
BumpOffset(offset, old_menu, new_menu) == wrapping_add(offset, Len(old_menu))

\* Faulty variant of MenuMsgs: LayoutUpdated carries the revision as it was
\* before the bump.
MenuMsgsStaleRevision(d, new_revision) ==
    IF d.layout_updated
    THEN << Msg("LayoutUpdated", [parent |-> 0, revision |-> new_revision - 1]) >>
    ELSE IF d.updated_props /= <<>> \/ d.removed_props /= <<>>
         THEN << Msg("ItemsPropertiesUpdated",
                     [updated_props |-> d.updated_props,
                      removed_props |-> d.removed_props]) >>
         ELSE <<>>

\* Faulty variant of MenuMsgs: if / if in place of if / else if.
MenuMsgsBoth(d, new_revision) ==
    (IF d.layout_updated
     THEN << Msg("LayoutUpdated", [parent |-> 0, revision |-> new_revision]) >>
     ELSE <<>>)
    \o (IF d.updated_props /= <<>> \/ d.removed_props /= <<>>
        THEN << Msg("ItemsPropertiesUpdated",
                    [updated_props |-> d.updated_props,
                     removed_props |-> d.removed_props]) >>
        ELSE <<>>)

\* The message of the cycle: the if / else if / else of update_menu.
MenuMsgs(d, new_revision) ==
    IF d.layout_updated
    THEN << Msg("LayoutUpdated", [parent |-> 0, revision |-> new_revision]) >>
    ELSE IF d.updated_props /= <<>> \/ d.removed_props /= <<>>
         THEN << Msg("ItemsPropertiesUpdated",
                     [updated_props |-> d.updated_props,
                      removed_props |-> d.removed_props]) >>
         ELSE <<>>

\* InnerState::update_menu, as the new values of what it writes
update_menu_with(old_menu, new_menu) ==
    LET d == DiffLoop(old_menu, new_menu, 0, DiffStart)
        rev == IF d.layout_updated THEN revision + 1 ELSE revision
    IN [menu_cache |-> new_menu,
        revision |-> rev,
        item_id_offset |-> IF d.layout_updated
                           THEN BumpOffset(item_id_offset, old_menu, new_menu)
                           ELSE item_id_offset,
        msgs |-> MenuMsgs(d, rev),
        layout_updated |-> d.layout_updated,
        examined |-> d.examined]

update_menu(old_menu, t) == update_menu_with(old_menu, menu_flatten(menu(t)))


\* --------------------------------------------------- service.rs: the service
Ids == -1 .. MaxId
EventIds == {"clicked", "hovered"}

\* The table and the fingerprints describe the tray as it is now.
Observable(table) == [i \in DOMAIN table |-> [table[i] EXCEPT !.item.on_clicked = "nop"]]
InSync(t) ==
    /\ prop_cache = PropertiesCacheNew(t)
    /\ Observable(menu_cache) = Observable(menu_flatten(menu(t)))

MidCycle == pc \in {"mutated", "props_done"}

NewCycle(source, noop, row) ==
    [source |-> source, noop |-> noop, row |-> row, intruded |-> FALSE,
     offset0 |-> item_id_offset, rev0 |-> revision, table0 |-> menu_cache,
     layout_updated |-> FALSE, examined |-> 0, done |-> FALSE,
     announced |-> cyc.announced]

Answer(kind, value, why) == [kind |-> kind, value |-> value, why |-> why]

\* build_processor: the caches are taken from the tray's initial state.
InitTrays == {[TrayDefault EXCEPT !.shape = s] : s \in {0, 2, 5}}

InitEngineAt(t, offset, rev) ==
    /\ tray = t
    /\ tray_status = "Idle"
    /\ menu_cache = menu_flatten(menu(tray))
    /\ prop_cache = PropertiesCacheNew(tray)
    /\ item_id_offset = offset
    /\ revision = rev
    /\ pc = "idle"
    /\ emitted = <<>>
    /\ reply = Answer("none", "none", "none")
    /\ cyc = [source |-> "none", noop |-> FALSE, row |-> -1, intruded |-> FALSE,
              offset0 |-> offset, rev0 |-> rev, table0 |-> menu_cache,
              layout_updated |-> FALSE, examined |-> 0, done |-> FALSE,
              announced |-> rev]
    /\ retired = {}
    /\ nmut = 0
    /\ group = [status |-> "none", events |-> <<>>, offset0 |-> 0, len0 |-> 0,
                found |-> <<>>, not_found |-> <<>>, handled |-> <<>>]

InitEngine(t) == InitEngineAt(t, 0, 0)

\* update_immediately, first block: { let mut model = lock(); f(&mut model); }
\* The guard is dropped at the end of the block.  row is the index of the
\* table row whose on_clicked is the closure, -1 when the closure is no row's.
MutateRow(f, row) ==
    /\ pc \in {"idle", "group", "zgroup"}
    /\ nmut < MaxMutations
    /\ tray' = Apply(f, tray)
    /\ nmut' = nmut + 1
    /\ pc' = "mutated"
    /\ emitted' = <<>>
    /\ cyc' = NewCycle("update_immediately", InSync(Apply(f, tray)), row)
    /\ UNCHANGED <<tray_status, menu_cache, item_id_offset, revision, prop_cache,
                   reply, retired>>
    /\ UNCHANGED <<handle_vars, watcher_vars, menu_vars>>

Mutate(f) == MutateRow(f, -1)

\* A panic on the service thread: unwrap() of None, an index past the end of
\* the table, a failed assert.  The thread unwinds and serves nothing more.
Panic(source, why) ==
    /\ pc' = "panicked"
    /\ reply' = Answer("panic", source, why)
    /\ UNCHANGED <<tray, tray_status, menu_cache, item_id_offset, revision,
                   prop_cache, emitted, cyc, retired, nmut>>
    /\ UNCHANGED <<handle_vars, watcher_vars, menu_vars>>

\* What the application's Tray::activate, secondary_activate and scroll do to
\* the tray (the defaults of the trait do nothing; this tray reacts).
activate(t) == Apply([op |-> "toggle", arg |-> 0], t)
secondary_activate(t) == Apply([op |-> "status", arg |-> "NeedsAttention"], t)
scroll(t, dir) ==
    Apply([op |-> "title", arg |-> IF dir = "vertical" THEN "MyTray" ELSE ""], t)

\* StatusNotifierItem::activate / secondary_activate / scroll
Activate ==
    /\ pc = "idle" /\ UNCHANGED group
    /\ Mutate([op |-> "toggle", arg |-> 0])

SecondaryActivate ==
    /\ pc = "idle" /\ UNCHANGED group
    /\ Mutate([op |-> "status", arg |-> "NeedsAttention"])

Scroll ==
    \E dir \in {"vertical", "horizontal"} :
        /\ pc = "idle" /\ UNCHANGED group
        /\ Mutate([op |-> "title",
                 arg |-> IF dir = "vertical" THEN "MyTray" ELSE ""])

\* assert_ne!(id, 0, "ROOT MENU ITEM CLICKED")
root_item_clicked_unchecked(id) == FALSE

root_item_clicked(id) == id = 0

\* Dbusmenu::event, the "clicked" arm
clicked(source, id) ==
    IF root_item_clicked(id)
    THEN Panic(source, "ROOT MENU ITEM CLICKED")
    ELSE IF id2index(id) = None
    THEN Panic(source, "id not found")
    ELSE IF id2index(id)[1] >= Len(menu_cache)
    THEN Panic(source, "index out of bounds")
    ELSE MutateRow(Handler(Row(menu_cache, id2index(id)[1]).item.on_clicked),
                   id2index(id)[1])

\* Dbusmenu::event
Event ==
    \E id \in Ids, event_id \in EventIds :
        /\ pc = "idle" /\ UNCHANGED group
        /\ IF event_id /= "clicked"
           THEN UNCHANGED vars
           ELSE clicked("Event", id)

\* Dbusmenu::get_property
GetProperty ==
    \E id \in Ids, name \in {"label", "toggle-state", "children-display"} :
        /\ pc = "idle" /\ UNCHANGED group
        /\ IF id2index(id) = None
           THEN Panic("GetProperty", "id not found")
           ELSE IF id2index(id)[1] >= Len(menu_cache)
           THEN Panic("GetProperty", "index out of bounds")
           ELSE LET props == to_dbus_map(Row(menu_cache, id2index(id)[1]).item, {name})
                IN IF name \notin DOMAIN props
                   THEN Panic("GetProperty", "property not found")
                   ELSE UNCHANGED vars

\* Ids a peer names in a batch: the root, the first two rows as the table
\* numbers them now, the id just below the offset (retired by the last layout
\* change, or -1 before the first) and the first id past the table.
BatchIds ==
    {0, index2id(1), index2id(2), item_id_offset - 1,
     item_id_offset + Len(menu_cache)}

BatchesOf(S) ==
    UNION {[1 .. n -> S] : n \in 0 .. MaxBatch}

\* The first panic of ids.into_iter().map(unwrap).map(index).collect(), or
\* "none" when every id passes.
RECURSIVE first_panic(_)
first_panic(ids) ==
    IF ids = <<>> THEN "none"
    ELSE IF id2index(Head(ids)) = None THEN "id not found"
    ELSE IF id2index(Head(ids))[1] >= Len(menu_cache) THEN "index out of bounds"
    ELSE first_panic(Tail(ids))

\* Dbusmenu::get_group_properties
GetGroupProperties ==
    \E ids \in BatchesOf(BatchIds) :
        /\ pc = "idle" /\ UNCHANGED group
        /\ IF first_panic(ids) /= "none"
           THEN Panic("GetGroupProperties", first_panic(ids))
           ELSE UNCHANGED vars

\* event_group's test of an id: id2index knows it and the index is in the table.
found_unbounded(id) == id2index(id) /= None

found(id) == id2index(id) /= None /\ id2index(id)[1] < Len(menu_cache)

\* Events a peer sends in a batch.
GroupEvents ==
    {[id |-> i, event_id |-> "clicked"] : i \in BatchIds}
        \cup {[id |-> index2id(1), event_id |-> "hovered"]}

NumClicked(events) ==
    Cardinality({i \in DOMAIN events : events[i].event_id = "clicked"})

\* Dbusmenu::event_group up to its loop: the events are partitioned; with
\* nothing found the call returns the invalid_arg error.
EventGroup ==
    \E events \in BatchesOf(GroupEvents) :
        LET IsFound(e) == found(e.id)
            IsNotFound(e) == ~found(e.id)
            fnd == SelectSeq(events, IsFound)
            nfd == SelectSeq(events, IsNotFound)
        IN /\ pc = "idle"
           /\ nmut + NumClicked(fnd) <= MaxMutations
           /\ group' = [status |-> IF fnd = <<>> THEN "invalid_args" ELSE "running",
                        events |-> events,
                        offset0 |-> item_id_offset, len0 |-> Len(menu_cache),
                        found |-> fnd,
                        not_found |-> [i \in DOMAIN nfd |-> nfd[i].id],
                        handled |-> <<>>]
           /\ pc' = IF fnd = <<>> THEN "idle" ELSE "group"
           /\ UNCHANGED <<tray, tray_status, menu_cache, item_id_offset, revision,
                          prop_cache, emitted, reply, cyc, retired, nmut>>
           /\ UNCHANGED <<handle_vars, watcher_vars, menu_vars>>

\* Dbusmenu::event_group, one turn of `for ... in found { self.event(..)?; }`
\* and, with nothing left, the return of Ok(not_found).
EventGroupNext ==
    /\ pc = "group"
    /\ IF group.found = <<>>
       THEN /\ pc' = "idle"
            /\ group' = [group EXCEPT !.status = "ok"]
            /\ UNCHANGED <<tray, tray_status, menu_cache, item_id_offset, revision,
                           prop_cache, emitted, reply, cyc, retired, nmut>>
            /\ UNCHANGED <<handle_vars, watcher_vars, menu_vars>>
       ELSE LET e == Head(group.found)
            IN IF e.event_id /= "clicked"
               THEN /\ group' = [group EXCEPT !.found = Tail(@)]
                    /\ UNCHANGED <<tray, tray_status, menu_cache, item_id_offset,
                                   revision, prop_cache, pc, emitted, reply, cyc,
                                   retired, nmut>>
                    /\ UNCHANGED <<handle_vars, watcher_vars, menu_vars>>
               ELSE /\ clicked("EventGroup", e.id)
                    /\ group' = [group EXCEPT
                           !.found = Tail(@),
                           !.handled = IF pc' = "mutated"
                                       THEN Append(@, [id |-> e.id, row |-> cyc'.row])
                                       ELSE @]

\* The update_properties call of update_immediately and of turn: it locks the
\* tray for its own duration.
UpdateProperties ==
    /\ pc = "mutated"
    /\ LET r == update_properties(prop_cache, tray)
       IN /\ prop_cache' = r.cache
          /\ emitted' = emitted \o r.msgs
    /\ pc' = "props_done"
    /\ UNCHANGED <<tray, tray_status, menu_cache, item_id_offset, revision, reply,
                   cyc, retired, nmut>>
    /\ UNCHANGED <<handle_vars, group, watcher_vars, menu_vars>>

\* The revision carried by the last LayoutUpdated among msgs, or the one
\* announced before them.
LastAnnounced(before, msgs) ==
    LET IsLayoutUpdated(msg) == msg.sig = "LayoutUpdated"
        lu == SelectSeq(msgs, IsLayoutUpdated)
    IN IF lu = <<>> THEN before ELSE lu[Len(lu)].body.revision

\* The update_menu call of update_immediately and of turn: the tray is locked
\* while the menu is read and flattened.
UpdateMenu ==
    /\ pc = "props_done"
    /\ LET r == update_menu(menu_cache, tray)
       IN /\ menu_cache' = r.menu_cache
          /\ revision' = r.revision
          /\ item_id_offset' = r.item_id_offset
          /\ emitted' = emitted \o r.msgs
          /\ cyc' = [cyc EXCEPT !.layout_updated = r.layout_updated,
                                !.examined = r.examined, !.done = TRUE,
                                !.announced = LastAnnounced(@, r.msgs)]
          /\ retired' = IF r.layout_updated
                        THEN retired \cup {index2id(i) : i \in 1 .. Len(menu_cache) - 1}
                        ELSE retired
    /\ pc' = IF group.status = "running" THEN "group"
             ELSE IF group.status = "zrunning" THEN "zgroup" ELSE "idle"
    /\ UNCHANGED <<tray, tray_status, prop_cache, reply, nmut>>
    /\ UNCHANGED <<handle_vars, group, watcher_vars, menu_vars>>

\* The update_menu call in a build with overflow checks, the layout changed
\* and the offset within old_menu.len() of i32::MAX: the revision is already
\* set when `+` panics with "attempt to add with overflow".
UpdateMenuOverflow ==
    /\ pc = "props_done"
    /\ update_menu(menu_cache, tray).layout_updated
    /\ checked_add(item_id_offset, Len(menu_cache)) = None
    /\ revision' = revision + 1
    /\ pc' = "panicked"
    /\ reply' = Answer("panic", "update_menu", "attempt to add with overflow")
    /\ UNCHANGED <<tray, tray_status, menu_cache, item_id_offset, prop_cache,
                   emitted, cyc, retired, nmut>>
    /\ UNCHANGED <<handle_vars, group, watcher_vars, menu_vars>>

\* Processor::turn, tray_status.take() = NeedUpdate
TurnNeedUpdate ==
    /\ pc = "idle"
    /\ tray_status = "NeedUpdate"
    /\ tray_status' = "Idle"
    /\ pc' = "mutated"
    /\ emitted' = <<>>
    /\ cyc' = NewCycle("turn", InSync(tray), -1)
    /\ UNCHANGED <<tray, menu_cache, item_id_offset, revision, prop_cache, reply,
                   retired, nmut>>
    /\ UNCHANGED <<handle_vars, group, watcher_vars, menu_vars>>

\* Processor::turn, tray_status.take() = Stop: run returns Ok(())
TurnStop ==
    /\ pc = "idle"
    /\ tray_status = "Stop"
    /\ pc' = "stopped"
    /\ UNCHANGED <<tray, tray_status, menu_cache, item_id_offset, revision,
                   prop_cache, emitted, reply, cyc, retired, nmut>>
    /\ UNCHANGED <<handle_vars, group, watcher_vars, menu_vars>>

\* Handle::update on another thread: the closure runs under the tray's mutex,
\* then the service is told it needs an update.
HandleUpdate ==
    \E f \in Mutations :
        /\ nmut < MaxMutations
        /\ tray' = Apply(f, tray)
        /\ nmut' = nmut + 1
        /\ tray_status' = IF tray_status = "Stop" THEN "Stop" ELSE "NeedUpdate"
        /\ cyc' = IF MidCycle THEN [cyc EXCEPT !.intruded = TRUE] ELSE cyc
        /\ UNCHANGED <<menu_cache, item_id_offset, revision, prop_cache, pc, emitted,
                       reply, retired>>
        /\ UNCHANGED <<handle_vars, group, watcher_vars, menu_vars>>

\* Handle::shutdown on another thread
HandleShutdown ==
    /\ tray_status /= "Stop"
    /\ tray_status' = "Stop"
    /\ UNCHANGED <<tray, menu_cache, item_id_offset, revision, prop_cache, pc,
                   emitted, reply, cyc, retired, nmut>>
    /\ UNCHANGED <<handle_vars, group, watcher_vars, menu_vars>>


\* The engine of service.rs, from build_processor on.
Next ==
    \/ Activate
    \/ SecondaryActivate
    \/ Scroll
    \/ Event
    \/ GetProperty
    \/ UpdateProperties
    \/ UpdateMenu
    \/ TurnNeedUpdate
    \/ TurnStop
    \/ HandleUpdate
    \/ HandleShutdown

\* ------------------------------------------------ blocking.rs: the handle
Handles == 1 .. NumHandles

\* Closures the handle's callers pass to update(), and what a closure returns
\* to its caller (the R of FnOnce(&mut T) -> R).
HandleClosures ==
    {[op |-> "nop", arg |-> 0], [op |-> "toggle", arg |-> 0], [op |-> "next", arg |-> 0]}

Ret(f, t) == <<f.op, Apply(f, t).checked>>

CallerIdle ==
    [pc |-> "idle", ack |-> "none", value |-> None, call |-> 0, kind |-> "none",
     after_stop |-> FALSE, last |-> "none", result |-> None]

\* spawn_with_options: the channel is open, the service loop runs on its own
\* thread and owns the only strong reference; the handle holds a Weak.
HandleAtRest ==
    /\ service = "running"
    /\ strong = 1
    /\ queue = <<>>
    /\ rx_open = TRUE
    /\ conn_open = TRUE
    /\ state = TrayDefault
    /\ published = TrayDefault
    /\ caller = [h \in Handles |-> CallerIdle]
    /\ inflight = <<>>
    /\ applied = {}
    /\ handed = {}
    /\ ncalls = 0

\* The service registered with a watcher that is on the bus, as every request
\* served above assumes.
WatcherAtRest ==
    /\ assume_sni_available = FALSE
    /\ bus = "online"
    /\ first = "Ok"
    /\ spawned = "handle"
    /\ actor = "running"
    /\ watcher = "Registered"
    /\ stop = FALSE
    /\ signals = <<>>
    /\ offline_calls = <<>>
    /\ online_calls = 1
    /\ registrations = 1
    /\ appeared = 0
    /\ shut = "none"
    /\ nchanges = 0
    /\ starter = "spawn"
    /\ exit = "none"
    /\ shut_at = "none"

\* No menu is being flattened outside the service.
MenuAtRest ==
    /\ items = <<>>
    /\ list = <<>>
    /\ variant = None
    /\ cycle = None
    /\ nflat = 0

Init == (\E t \in InitTrays : InitEngine(t)) /\ HandleAtRest /\ WatcherAtRest /\ MenuAtRest

Spec == Init /\ [][Next]_vars

\* The engine serving the dbusmenu requests that name rows: single events,
\* batches of events with the cycles their clicks run, and batches of ids.
GroupTrays == {[TrayDefault EXCEPT !.shape = s] : s \in {0, 1, 3}}

InitGroup ==
    (\E t \in GroupTrays : InitEngine(t)) /\ HandleAtRest /\ WatcherAtRest /\ MenuAtRest

NextGroup ==
    \/ Event
    \/ EventGroup
    \/ EventGroupNext
    \/ GetGroupProperties
    \/ UpdateProperties
    \/ UpdateMenu

SpecGroup == InitGroup /\ [][NextGroup]_vars

\* ------------------------------------ dbus_interface.rs: DbusMenu::event_group
\* Events a peer sends in a batch to the zbus interface: clicks on the first
\* two rows and on the first id past the table.
ZbusEvents ==
    {[id |-> i, event_id |-> "clicked"] :
        i \in {index2id(1), index2id(2), item_id_offset + Len(menu_cache)}}

\* let (last_id, _, _, _) = events.last()
last_id(events) == events[Len(events)].id

\* service.event(conn, id == last_id, id, ..): the update flag of an entry
update_flag(events, id) == id = last_id(events)

\* DbusMenu::event_group up to its loop: the empty batch is the error.
ZbusEventGroup ==
    \E events \in BatchesOf(ZbusEvents) :
        /\ pc = "idle"
        /\ nmut + Len(events) <= MaxMutations
        /\ group' = [status |-> IF events = <<>> THEN "invalid_args" ELSE "zrunning",
                     events |-> events,
                     offset0 |-> item_id_offset, len0 |-> Len(menu_cache),
                     found |-> events,
                     not_found |-> <<>>,
                     handled |-> <<>>]
        /\ pc' = IF events = <<>> THEN "idle" ELSE "zgroup"
        /\ UNCHANGED <<tray, tray_status, menu_cache, item_id_offset, revision,
                       prop_cache, emitted, reply, cyc, retired, nmut>>
        /\ UNCHANGED <<handle_vars, watcher_vars, menu_vars>>

\* Service::event(conn, update, id, event_id, ..) of the zbus service: Err(())
\* for an id that names no row; else the row's handler is applied to the tray
\* and the diff cycle runs iff update.
ZbusEvent(update, e) ==
    IF e.event_id /= "clicked"
    THEN /\ group' = [group EXCEPT !.found = Tail(@)]
         /\ UNCHANGED <<tray, tray_status, menu_cache, item_id_offset, revision,
                        prop_cache, pc, emitted, reply, cyc, retired, nmut>>
         /\ UNCHANGED <<handle_vars, watcher_vars, menu_vars>>
    ELSE IF ~found(e.id)
    THEN /\ group' = [group EXCEPT !.found = Tail(@),
                                   !.not_found = Append(@, e.id)]
         /\ UNCHANGED <<tray, tray_status, menu_cache, item_id_offset, revision,
                        prop_cache, pc, emitted, reply, cyc, retired, nmut>>
         /\ UNCHANGED <<handle_vars, watcher_vars, menu_vars>>
    ELSE LET row == id2index(e.id)[1]
             f == Handler(Row(menu_cache, row).item.on_clicked)
         IN /\ group' = [group EXCEPT
                            !.found = Tail(@),
                            !.handled = Append(@, [id |-> e.id, row |-> row])]
            /\ IF update
               THEN MutateRow(f, row)
               ELSE /\ nmut < MaxMutations
                    /\ tray' = Apply(f, tray)
                    /\ nmut' = nmut + 1
                    /\ UNCHANGED <<tray_status, menu_cache, item_id_offset,
                                   revision, prop_cache, pc, emitted, reply, cyc,
                                   retired>>
                    /\ UNCHANGED <<handle_vars, watcher_vars, menu_vars>>

\* DbusMenu::event_group, one turn of its `for (id, ..) in events` and, with
\* nothing left, its return: the error when every id was not found, else
\* Ok(not_found).
ZbusEventGroupNext ==
    /\ pc = "zgroup"
    /\ IF group.found = <<>>
       THEN /\ pc' = "idle"
            /\ group' = [group EXCEPT
                           !.status = IF Len(group.not_found) = Len(group.events)
                                      THEN "invalid_args" ELSE "ok"]
            /\ UNCHANGED <<tray, tray_status, menu_cache, item_id_offset, revision,
                           prop_cache, emitted, reply, cyc, retired, nmut>>
            /\ UNCHANGED <<handle_vars, watcher_vars, menu_vars>>
       ELSE ZbusEvent(update_flag(group.events, Head(group.found).id),
                      Head(group.found))

\* The engine after so many layout changes that the next one takes the offset
\* past i32::MAX: the table's ids are the last the range holds.
IdsTrays == {[TrayDefault EXCEPT !.shape = s] : s \in {1, 3, 4}}

InitIds ==
    /\ \E t \in IdsTrays :
          InitEngineAt(t, I32Max - Len(menu_flatten(menu(t))) + 1, 65536)
    /\ HandleAtRest /\ WatcherAtRest /\ MenuAtRest

NextIds ==
    \/ Activate
    \/ HandleUpdate
    \/ TurnNeedUpdate
    \/ UpdateProperties
    \/ UpdateMenu
    \/ UpdateMenuOverflow

SpecIds == InitIds /\ [][NextIds]_vars

\* The engine behind the zbus interface serving batches of events.
NextZbus ==
    \/ ZbusEventGroup
    \/ ZbusEventGroupNext
    \/ UpdateProperties
    \/ UpdateMenu

SpecZbus == InitGroup /\ [][NextZbus]_vars


\* ------------------------------------------- the handle and the service loop
\* compat::block_on(fut) returns once fut is complete: the oneshot behind an
\* update or a shutdown has a value, or its sender is gone.
block_on(ack) == ack /= "none"

\* mpsc send: Ok while the receiver is alive, Err once it has been dropped.
send(msg) == IF rx_open THEN Append(queue, msg) ELSE queue

\* Handle::update, up to the point where block_on starts waiting: the request
\* (closure and reply slot) goes to the service loop; with the loop gone the
\* call is over at once and gives None.
UpdateCall(h, f) ==
    /\ caller[h].pc = "idle"
    /\ ncalls < MaxCalls
    /\ ncalls' = ncalls + 1
    /\ queue' = send([kind |-> "update", h |-> h, f |-> f, call |-> ncalls + 1,
                      ret |-> None])
    /\ caller' = [caller EXCEPT ![h] =
           IF rx_open
           THEN [CallerIdle EXCEPT !.pc = "in_update", !.call = ncalls + 1,
                                   !.kind = "update",
                                   !.after_stop = (service = "stopped")]
           ELSE [CallerIdle EXCEPT !.call = ncalls + 1, !.kind = "update",
                                   !.after_stop = (service = "stopped"),
                                   !.last = "update"]]
    /\ UNCHANGED <<service, strong, rx_open, conn_open, state, published, inflight,
                   applied, handed>>
    /\ UNCHANGED <<engine_vars, watcher_vars, menu_vars>>

\* Faulty variant of UpdateReturn: the call returns without waiting for the
\* service loop's answer.
UpdateReturnEarly(h) ==
    /\ caller[h].pc = "in_update"
    /\ caller' = [caller EXCEPT ![h].pc = "idle", ![h].last = "update",
                                ![h].result = IF caller[h].ack = "sent"
                                              THEN caller[h].value ELSE None]
    /\ UNCHANGED <<service, strong, queue, rx_open, conn_open, state, published,
                   inflight, applied, handed, ncalls>>
    /\ UNCHANGED <<engine_vars, watcher_vars, menu_vars>>

\* Handle::update returns what block_on yields
UpdateReturn(h) ==
    /\ caller[h].pc = "in_update"
    /\ block_on(caller[h].ack)
    /\ caller' = [caller EXCEPT ![h].pc = "idle", ![h].last = "update",
                                ![h].result = IF caller[h].ack = "sent"
                                              THEN caller[h].value ELSE None]
    /\ UNCHANGED <<service, strong, queue, rx_open, conn_open, state, published,
                   inflight, applied, handed, ncalls>>
    /\ UNCHANGED <<engine_vars, watcher_vars, menu_vars>>

\* Handle::shutdown: the request goes to the service loop and the caller
\* holds a ShutdownAwaiter; with the loop gone the awaiter is complete at once.
ShutdownCall(h) ==
    /\ caller[h].pc = "idle"
    /\ ncalls < MaxCalls
    /\ ncalls' = ncalls + 1
    /\ queue' = send([kind |-> "shutdown", h |-> h, f |-> [op |-> "nop", arg |-> 0],
                      call |-> ncalls + 1, ret |-> None])
    /\ caller' = [caller EXCEPT ![h] =
           [CallerIdle EXCEPT !.pc = "awaiter", !.call = ncalls + 1,
                              !.kind = "shutdown",
                              !.after_stop = (service = "stopped"),
                              !.ack = IF rx_open THEN "none" ELSE "dropped"]]
    /\ UNCHANGED <<service, strong, rx_open, conn_open, state, published, inflight,
                   applied, handed>>
    /\ UNCHANGED <<engine_vars, watcher_vars, menu_vars>>

\* Faulty variant of WaitReturn: wait returns without the acknowledgement.
WaitReturnEarly(h) ==
    /\ caller[h].pc = "awaiter"
    /\ caller' = [caller EXCEPT ![h].pc = "idle", ![h].last = "wait"]
    /\ UNCHANGED <<service, strong, queue, rx_open, conn_open, state, published,
                   inflight, applied, handed, ncalls>>
    /\ UNCHANGED <<engine_vars, watcher_vars, menu_vars>>

\* ShutdownAwaiter::wait
WaitReturn(h) ==
    /\ caller[h].pc = "awaiter"
    /\ block_on(caller[h].ack)
    /\ caller' = [caller EXCEPT ![h].pc = "idle", ![h].last = "wait"]
    /\ UNCHANGED <<service, strong, queue, rx_open, conn_open, state, published,
                   inflight, applied, handed, ncalls>>
    /\ UNCHANGED <<engine_vars, watcher_vars, menu_vars>>

\* Handle::is_closed as each caller would see it
is_closed == ~rx_open

\* The service loop takes the next request off the channel.
ActorRecv ==
    /\ service = "running"
    /\ inflight = <<>>
    /\ queue /= <<>>
    /\ inflight' = <<Head(queue)>>
    /\ queue' = Tail(queue)
    /\ UNCHANGED <<service, strong, rx_open, conn_open, state, published, caller,
                   applied, handed, ncalls>>
    /\ UNCHANGED <<engine_vars, watcher_vars, menu_vars>>

\* The service loop runs the closure of an update request on the tray.
ActorApply ==
    /\ service = "running"
    /\ inflight /= <<>>
    /\ inflight[1].kind = "update"
    /\ state' = Apply(inflight[1].f, state)
    /\ applied' = applied \cup {[call |-> inflight[1].call,
                                 ret |-> Ret(inflight[1].f, state)]}
    /\ inflight' = <<[inflight[1] EXCEPT !.ret = Some(Ret(inflight[1].f, state))]>>
    /\ service' = "cycle"
    /\ UNCHANGED <<strong, queue, rx_open, conn_open, published, caller, handed,
                   ncalls>>
    /\ UNCHANGED <<engine_vars, watcher_vars, menu_vars>>

\* The service loop finishes the diff-and-notify cycle of the request and
\* then completes the request with the closure's result.
ActorPublish ==
    /\ service = "cycle"
    /\ published' = state
    /\ handed' = handed \cup {inflight[1].call}
    /\ caller' = [caller EXCEPT ![inflight[1].h].ack = "sent",
                                ![inflight[1].h].value = inflight[1].ret]
    /\ inflight' = <<>>
    /\ service' = "running"
    /\ UNCHANGED <<strong, queue, rx_open, conn_open, state, applied, ncalls>>
    /\ UNCHANGED <<engine_vars, watcher_vars, menu_vars>>

\* The service loop, on a shutdown request: close the transport ...
ActorClose ==
    /\ service = "running"
    /\ inflight /= <<>>
    /\ inflight[1].kind = "shutdown"
    /\ conn_open' = FALSE
    /\ service' = "closing"
    /\ UNCHANGED <<strong, queue, rx_open, state, published, caller, inflight,
                   applied, handed, ncalls>>
    /\ UNCHANGED <<engine_vars, watcher_vars, menu_vars>>

\* ... then acknowledge it.
ActorAck ==
    /\ service = "closing"
    /\ caller' = [caller EXCEPT ![inflight[1].h].ack = "sent"]
    /\ inflight' = <<>>
    /\ service' = "acked"
    /\ UNCHANGED <<strong, queue, rx_open, conn_open, state, published, applied,
                   handed, ncalls>>
    /\ UNCHANGED <<engine_vars, watcher_vars, menu_vars>>

\* Requests still in the channel when the receiver is dropped: their reply
\* slots are dropped with them.
Pending(h) == \E i \in 1 .. Len(queue) : queue[i].h = h

\* Faulty variant of ServiceLoopExit: the receiver outlives the loop.
ServiceLoopExitLeak ==
    /\ service = "acked"
    /\ service' = "stopped"
    /\ strong' = 0
    /\ UNCHANGED <<queue, rx_open, caller, conn_open, state, published, inflight,
                   applied, handed, ncalls>>
    /\ UNCHANGED <<engine_vars, watcher_vars, menu_vars>>

\* thread::spawn(move || { block_on(service_loop); }): when the loop's future
\* is over the closure ends and drops what it owns, the receiver and the only
\* strong reference to the Service.
ServiceLoopExit ==
    /\ service = "acked"
    /\ service' = "stopped"
    /\ rx_open' = FALSE
    /\ strong' = 0
    /\ queue' = <<>>
    /\ caller' = [h \in Handles |->
                    IF Pending(h) THEN [caller[h] EXCEPT !.ack = "dropped"]
                    ELSE caller[h]]
    /\ UNCHANGED <<conn_open, state, published, inflight, applied, handed, ncalls>>
    /\ UNCHANGED <<engine_vars, watcher_vars, menu_vars>>

\* StatusNotifierItem::activate of dbus_interface.rs: the handler takes the
\* Service's mutex, which the service loop holds during a cycle, and keeps it
\* until the tray's activate and the update that follows are done.
RemoteActivate ==
    /\ service = "running"
    /\ conn_open
    /\ state' = activate(state)
    /\ published' = activate(state)
    /\ UNCHANGED <<service, strong, queue, rx_open, conn_open, caller, inflight,
                   applied, handed, ncalls>>
    /\ UNCHANGED <<engine_vars, watcher_vars, menu_vars>>

NextHandle ==
    \/ \E h \in Handles, f \in HandleClosures : UpdateCall(h, f)
    \/ \E h \in Handles : UpdateReturn(h)
    \/ \E h \in Handles : ShutdownCall(h)
    \/ \E h \in Handles : WaitReturn(h)
    \/ ActorRecv
    \/ ActorApply
    \/ ActorPublish
    \/ ActorClose
    \/ ActorAck
    \/ ServiceLoopExit
    \/ RemoteActivate

InitHandle == InitEngine(TrayDefault) /\ HandleAtRest /\ WatcherAtRest /\ MenuAtRest

\* The handle of blocking.rs with the service loop behind it.
SpecHandle == InitHandle /\ [][NextHandle]_vars


\* ------------------------------ startup and the watcher's presence at runtime
\* Presence changes of the watcher in one behaviour.
MaxChanges == 2

\* snw_object.register_status_notifier_item(&name), as the bus answers it
register_status_notifier_item ==
    CASE bus = "online" -> "Ok"
      [] bus = "no_host" -> "WontShow"
      [] bus = "absent" -> "ServiceUnknown"
      [] bus = "broken" -> "Failed"

\* Err(ref e) if e.name() == Some("org.freedesktop.DBus.Error.ServiceUnknown")
is_any_error(e) == e /= "Ok"

is_service_unknown(e) == e = "ServiceUnknown"

\* The "soft errors" of assume_sni_available: Error::Watcher(ServiceUnknown)
\* and Error::WontShow.
is_service_unknown_only(e) == is_service_unknown(e)

is_soft_error(e) == is_service_unknown(e) \/ e = "WontShow"

\* A soft error is routed to the offline callback when the tray was spawned
\* with assume_sni_available(true); otherwise spawn returns it.
routed_in_any_mode(assume, e) == is_soft_error(e)

routed(assume, e) == assume /\ is_soft_error(e)

\* if !watcher_offine() { tray_status.stop(); }
stop_never(keep) == FALSE

stop_always(keep) == TRUE

stop_unless(keep) == ~keep

OfflineCall(reason, keep) == [reason |-> reason, keep |-> keep]

\* register_status_notifier_item(&name).unwrap_or_default() in the handler:
\* whatever the call returns, nothing is propagated and nothing stops.
failure_stops_as_at_startup(e) == e /= "Ok"

failure_stops(e) == FALSE

\* spawn with the registration answered Ok: the online callback runs, the
\* service loop gets its thread and the caller its Handle.
SpawnOnline ==
    /\ spawned = "none"
    /\ register_status_notifier_item = "Ok"
    /\ first' = "Ok"
    /\ registrations' = registrations + 1
    /\ online_calls' = online_calls + 1
    /\ watcher' = "Registered"
    /\ actor' = "running"
    /\ spawned' = "handle"
    /\ UNCHANGED <<assume_sni_available, bus, stop, signals, offline_calls,
                   appeared, shut, nchanges>>
    /\ UNCHANGED <<engine_vars, handle_vars, menu_vars, starter, exit, shut_at>>

\* spawn with the registration answered by a soft error that is routed: the
\* offline callback runs once with the error, the service loop starts with the
\* item not registered, and a callback returning false asks it to stop.
SpawnOffline ==
    \E keep \in BOOLEAN :
        /\ spawned = "none"
        /\ routed(assume_sni_available, register_status_notifier_item)
        /\ first' = register_status_notifier_item
        /\ registrations' = registrations + 1
        /\ offline_calls' =
               Append(offline_calls, OfflineCall(register_status_notifier_item, keep))
        /\ stop' = stop_unless(keep)
        /\ watcher' = "Offline"
        /\ actor' = "running"
        /\ spawned' = "handle"
        /\ UNCHANGED <<assume_sni_available, bus, signals, online_calls, appeared,
                       shut, nchanges>>
        /\ UNCHANGED <<engine_vars, handle_vars, menu_vars, starter, exit, shut_at>>

\* build_processor with the watcher absent at the registration call and on the
\* bus before dbus_object.match_signal has installed the NameOwnerChanged
\* match: the bus sent the signal of that appearance to no one, so the service
\* loop starts Offline with nothing to handle.
SpawnOfflineUnsubscribed ==
    \E keep \in BOOLEAN :
        /\ spawned = "none"
        /\ bus = "absent"
        /\ routed(assume_sni_available, register_status_notifier_item)
        /\ nchanges < MaxChanges
        /\ first' = register_status_notifier_item
        /\ registrations' = registrations + 1
        /\ offline_calls' =
               Append(offline_calls, OfflineCall(register_status_notifier_item, keep))
        /\ stop' = stop_unless(keep)
        /\ watcher' = "Offline"
        /\ bus' = "online"
        /\ nchanges' = nchanges + 1
        /\ actor' = "running"
        /\ spawned' = "handle"
        /\ UNCHANGED <<assume_sni_available, signals, online_calls, appeared, shut>>
        /\ UNCHANGED <<engine_vars, handle_vars, menu_vars, starter, exit, shut_at>>

\* spawn with the registration answered by any other error: `r => r?` and the
\* `?` of spawn_with_options return it before the thread is spawned and before
\* the Handle is built.
SpawnError ==
    /\ spawned = "none"
    /\ register_status_notifier_item /= "Ok"
    /\ ~routed(assume_sni_available, register_status_notifier_item)
    /\ first' = register_status_notifier_item
    /\ registrations' = registrations + 1
    /\ watcher' = "Failed"
    /\ spawned' = "error"
    /\ UNCHANGED <<assume_sni_available, bus, actor, stop, signals, offline_calls,
                   online_calls, appeared, shut, nchanges>>
    /\ UNCHANGED <<engine_vars, handle_vars, menu_vars, starter, exit, shut_at>>

\* The bus: the watcher's name loses its owner, or gets one; a running
\* service has a match on NameOwnerChanged and is sent the signal.
WatcherVanishes ==
    /\ spawned = "handle"
    /\ bus \in {"online", "no_host"}
    /\ nchanges < MaxChanges
    /\ bus' = "absent"
    /\ nchanges' = nchanges + 1
    /\ signals' = IF actor = "running" THEN Append(signals, "vanished") ELSE signals
    /\ UNCHANGED <<assume_sni_available, first, spawned, actor, watcher, stop,
                   offline_calls, online_calls, registrations, appeared, shut>>
    /\ UNCHANGED <<engine_vars, handle_vars, menu_vars, starter, exit, shut_at>>

WatcherAppears ==
    /\ spawned = "handle"
    /\ bus = "absent"
    /\ nchanges < MaxChanges
    /\ bus' = "online"
    /\ nchanges' = nchanges + 1
    /\ signals' = IF actor = "running" THEN Append(signals, "appeared") ELSE signals
    /\ UNCHANGED <<assume_sni_available, first, spawned, actor, watcher, stop,
                   offline_calls, online_calls, registrations, appeared, shut>>
    /\ UNCHANGED <<engine_vars, handle_vars, menu_vars, starter, exit, shut_at>>

\* The NameOwnerChanged handler, new_owner empty: the offline callback decides.
OnWatcherVanished ==
    \E keep \in BOOLEAN :
        /\ actor = "running"
        /\ signals /= <<>> /\ Head(signals) = "vanished"
        /\ signals' = Tail(signals)
        /\ offline_calls' = Append(offline_calls, OfflineCall("Vanished", keep))
        /\ stop' = (stop \/ stop_unless(keep))
        /\ watcher' = "Offline"
        /\ UNCHANGED <<assume_sni_available, bus, first, spawned, actor, online_calls,
                       registrations, appeared, shut, nchanges>>
        /\ UNCHANGED <<engine_vars, handle_vars, menu_vars, starter, exit, shut_at>>

\* The NameOwnerChanged handler, new_owner not empty: the online callback (the
\* name had no owner before) and a new registration, its error dropped by
\* unwrap_or_default.
OnWatcherAppeared ==
    /\ actor = "running"
    /\ signals /= <<>> /\ Head(signals) = "appeared"
    /\ signals' = Tail(signals)
    /\ online_calls' = online_calls + 1
    /\ registrations' = registrations + 1
    /\ appeared' = appeared + 1
    /\ watcher' = IF register_status_notifier_item = "Ok" THEN "Registered" ELSE watcher
    /\ stop' = (stop \/ failure_stops(register_status_notifier_item))
    /\ UNCHANGED <<assume_sni_available, bus, first, spawned, actor,
                   offline_calls, shut, nchanges>>
    /\ UNCHANGED <<engine_vars, handle_vars, menu_vars, starter, exit, shut_at>>

\* TrayService::run: the loop ends on the first Err of turn, Stopped as Ok(())
\* and a D-Bus error as itself.
run_swallowing(e) == "Ok"

run(e) == IF e = "Stopped" THEN "Ok" ELSE "Err"

\* What the one who started the service gets of run's result: run returns it,
\* spawn unwraps it on the service thread, which panics with the error.
starter_gets(by, result) ==
    IF by = "spawn" /\ result = "Err" THEN "panic" ELSE result

\* Processor::turn finds Stop: run returns and the service thread ends.
WatcherTurnStop ==
    /\ actor = "running"
    /\ stop
    /\ actor' = "stopped"
    /\ exit' = run("Stopped")
    /\ UNCHANGED <<assume_sni_available, bus, first, spawned, watcher, stop, signals,
                   offline_calls, online_calls, registrations, appeared, shut,
                   nchanges>>
    /\ UNCHANGED <<engine_vars, handle_vars, menu_vars, starter, shut_at>>

\* Processor::turn, self.conn.process(wait)? failing: the transport is gone.
WatcherTurnError ==
    /\ actor = "running"
    /\ actor' = "failed"
    /\ exit' = run("Dbus")
    /\ UNCHANGED <<assume_sni_available, bus, first, spawned, watcher, stop, signals,
                   offline_calls, online_calls, registrations, appeared, shut,
                   nchanges>>
    /\ UNCHANGED <<engine_vars, handle_vars, menu_vars, starter, shut_at>>

\* ShutdownAwaiter::wait: complete once the service loop has ended, whether
\* the request ended it or it had ended before.
wait_for_ack(a, at) == a \in {"stopped", "failed"} /\ at = "running"

wait_completes(a, at) == a \in {"stopped", "failed"}

\* Handle::shutdown, and its awaiter completing once the service has stopped.
WatcherShutdown ==
    /\ spawned = "handle"
    /\ shut = "none"
    /\ shut' = "requested"
    /\ shut_at' = actor
    /\ stop' = TRUE
    /\ UNCHANGED <<assume_sni_available, bus, first, spawned, actor, watcher,
                   signals, offline_calls, online_calls, registrations, appeared,
                   nchanges>>
    /\ UNCHANGED <<engine_vars, handle_vars, menu_vars, starter, exit>>

WatcherShutdownWait ==
    /\ shut = "requested"
    /\ wait_completes(actor, shut_at)
    /\ shut' = "done"
    /\ UNCHANGED <<assume_sni_available, bus, first, spawned, actor, watcher, stop,
                   signals, offline_calls, online_calls, registrations, appeared,
                   nchanges>>
    /\ UNCHANGED <<engine_vars, handle_vars, menu_vars, starter, exit, shut_at>>

\* Before spawn: the builder's option is chosen and the bus is in some state.
InitWatcher ==
    /\ InitEngine(TrayDefault)
    /\ HandleAtRest
    /\ MenuAtRest
    /\ assume_sni_available \in BOOLEAN
    /\ bus \in {"online", "no_host", "absent", "broken"}
    /\ first = "none"
    /\ spawned = "none"
    /\ actor = "none"
    /\ watcher = "Unregistered"
    /\ stop = FALSE
    /\ signals = <<>>
    /\ offline_calls = <<>>
    /\ online_calls = 0
    /\ registrations = 0
    /\ appeared = 0
    /\ shut = "none"
    /\ nchanges = 0
    /\ starter \in {"run", "spawn"}
    /\ exit = "none"
    /\ shut_at = "none"

NextWatcher ==
    \/ SpawnOnline
    \/ SpawnOffline
    \/ SpawnOfflineUnsubscribed
    \/ SpawnError
    \/ WatcherVanishes
    \/ WatcherAppears
    \/ OnWatcherVanished
    \/ OnWatcherAppeared
    \/ WatcherTurnStop
    \/ WatcherTurnError
    \/ WatcherShutdown
    \/ WatcherShutdownWait

\* The service loop polls: a signal that has arrived is handled, a stop that
\* was asked for is seen, and the awaiter of a stopped service completes.
SpecWatcher ==
    /\ InitWatcher
    /\ [][NextWatcher]_vars
    /\ WF_vars(OnWatcherVanished)
    /\ WF_vars(OnWatcherAppeared)
    /\ WF_vars(WatcherTurnStop)
    /\ WF_vars(WatcherShutdownWait)


\* ------------------------------------- menu.rs: menu_flatten on arbitrary menus
\* Nodes of a menu, levels of a GetLayout request, calls of menu_flatten.
MaxNodes == 3
MaxDepth == 1
MaxFlattens == 2

Leaves == {StandardItem("a", "nop"), Sepatator,
           CheckmarkItem("c", FALSE, "nop"), RadioGroup}

RECURSIVE ForestN(_)
RECURSIVE TreeN(_)

\* The menus of exactly n nodes, and the items of exactly n nodes.
ForestN(n) ==
    IF n = 0 THEN {<<>>}
    ELSE UNION {{<<t>> \o r : t \in TreeN(k), r \in ForestN(n - k)} : k \in 1 .. n}

TreeN(n) ==
    (IF n = 1 THEN Leaves ELSE {}) \cup {SubMenu("s", f) : f \in ForestN(n - 1)}

\* A menu of two levels: a submenu of two leaves, a separator, a leaf.
TwoLevelMenu ==
    << SubMenu("s", << StandardItem("a", "nop"), CheckmarkItem("c", FALSE, "nop") >>),
       Sepatator, StandardItem("b", "nop") >>

Menus == UNION {ForestN(n) : n \in 0 .. MaxNodes} \cup {TwoLevelMenu}

\* menu_flatten(tray.menu()), the first time and again on the same menu.
MenuFlatten ==
    /\ nflat < MaxFlattens
    /\ list' = menu_flatten(items)
    /\ nflat' = nflat + 1
    /\ UNCHANGED <<items, variant, cycle>>
    /\ UNCHANGED <<engine_vars, handle_vars, watcher_vars>>

\* The rows as to_dbusmenu_variant sets them up: (id, properties, children
\* collected so far, child indices still to visit); children-display is the
\* entry the loop inserts into the properties.
LayoutRows(table, filter) ==
    [i \in 1 .. Len(table) |->
        [id |-> i - 1, props |-> to_dbus_map(table[i].item, filter),
         children_display |-> "", children |-> <<>>, submenu |-> table[i].childs]]

\* (item.0, item.1, item.2) as it is pushed to its parent's children
LayoutItem(c) ==
    [id |-> c.id, props |-> c.props, children_display |-> c.children_display,
     children |-> c.children]

\* recursion_depth.is_none() || recursion_depth.unwrap() + 1 >= stack.len()
descends_always(recursion_depth, stack_len) == TRUE

descends(recursion_depth, stack_len) ==
    recursion_depth = None \/ recursion_depth[1] + 1 >= stack_len

\* if !c.2.is_empty() { c.1.insert("children-display", "submenu") }
tagged(c) == c.children /= <<>>

RECURSIVE LayoutLoop(_, _, _)

\* while let Some(current) = stack.pop()
LayoutLoop(x, stack, recursion_depth) ==
    IF stack = <<>> THEN x
    ELSE LET current == stack[Len(stack)]
             popped == SubSeq(stack, 1, Len(stack) - 1)
             row == x[current + 1]
         IN IF row.submenu = <<>>
            THEN LET c == IF tagged(row)
                          THEN [row EXCEPT !.children_display = "submenu"]
                          ELSE row
                 IN IF popped /= <<>>
                    THEN LET parent == popped[Len(popped)]
                         IN LayoutLoop(
                                [x EXCEPT ![current + 1] = None,
                                          ![parent + 1].children =
                                              Append(@, LayoutItem(c))],
                                popped, recursion_depth)
                    ELSE LayoutLoop([x EXCEPT ![current + 1] = c], <<>>,
                                    recursion_depth)
            ELSE LET sub == Head(row.submenu)
                     x1 == [x EXCEPT ![current + 1].submenu = Tail(@)]
                 IN IF descends(recursion_depth, Len(stack))
                    THEN LayoutLoop(x1, Append(stack, sub), recursion_depth)
                    ELSE LayoutLoop(x1, stack, recursion_depth)

to_dbusmenu_variant(table, parent_id, recursion_depth, property_names) ==
    IF table = <<>> THEN [id |-> 0, props |-> << >>, children_display |-> "",
                         children |-> <<>>]
    ELSE LayoutItem(LayoutLoop(LayoutRows(table, property_names), <<parent_id>>,
                               recursion_depth)[parent_id + 1])

Depths == {None} \cup {Some(d) : d \in 0 .. MaxDepth}

\* GetLayout for a row of the table, to some depth, all properties asked for;
\* one request, or one change of the menu, is followed per behaviour.
ToDbusmenuVariant ==
    \E parent_id \in 0 .. Len(list) - 1, recursion_depth \in Depths :
        /\ list /= <<>>
        /\ variant = None
        /\ cycle = None
        /\ variant' = Some([parent_id |-> parent_id,
                            recursion_depth |-> recursion_depth,
                            r |-> to_dbusmenu_variant(list, parent_id,
                                                      recursion_depth, {})])
        /\ UNCHANGED <<items, list, cycle, nflat>>
        /\ UNCHANGED <<engine_vars, handle_vars, watcher_vars>>

\* What takes a leaf's place: submenus of no item, of one leaf, of a radio group.
Submenus == {<<>>, <<StandardItem("n", "nop")>>, <<RadioGroup>>}

RECURSIVE LeafReplaced(_)

\* The menus that differ from nodes by one leaf, at any place and any level,
\* having become a submenu of the same label.
LeafReplaced(nodes) ==
    UNION {
        {[nodes EXCEPT ![k] = n] :
            n \in IF nodes[k].kind \in {"Standard", "Checkmark"}
                  THEN {SubMenu(nodes[k].label, sub) : sub \in Submenus}
                  ELSE IF nodes[k].kind = "SubMenu"
                       THEN {[nodes[k] EXCEPT !.submenu = g] :
                                g \in LeafReplaced(nodes[k].submenu)}
                       ELSE {}} :
        k \in DOMAIN nodes}

\* The application replaces a leaf of its menu by a submenu and the service
\* runs update_menu on the table it has.
MenuUpdate ==
    \E new_items \in LeafReplaced(items) :
        LET u == update_menu_with(list, menu_flatten(new_items))
        IN /\ list /= <<>>
           /\ cycle = None
           /\ variant = None
           /\ items' = new_items
           /\ list' = u.menu_cache
           /\ cycle' = Some([items0 |-> items, table0 |-> list, msgs |-> u.msgs,
                             revision |-> u.revision,
                             item_id_offset |-> u.item_id_offset])
           /\ UNCHANGED <<variant, nflat>>
           /\ UNCHANGED <<engine_vars, handle_vars, watcher_vars>>

InitMenu ==
    /\ InitEngine(TrayDefault)
    /\ HandleAtRest
    /\ WatcherAtRest
    /\ items \in Menus
    /\ list = <<>>
    /\ variant = None
    /\ cycle = None
    /\ nflat = 0

NextMenu ==
    \/ MenuFlatten
    \/ ToDbusmenuVariant
    \/ MenuUpdate

\* menu_flatten and to_dbusmenu_variant on every menu of a few nodes.
SpecMenu == InitMenu /\ [][NextMenu]_vars

\* ------------------------------------------------ service.rs: get_layout
\* Dbusmenu::get_layout: Ok((self.revision.get(), gen_dbusmenu_variant(..))),
\* the tree with its rows numbered by index as to_dbusmenu_variant builds it
\* and the id of its root; gen_dbusmenu_variant unwraps id2index(parent_id)
\* and indexes the table with it.
GetLayout ==
    \E parent_id \in BatchIds, recursion_depth \in {-1, 0} :
        /\ pc = "idle" /\ UNCHANGED group
        /\ IF id2index(parent_id) = None
           THEN Panic("GetLayout", "id not found")
           ELSE IF id2index(parent_id)[1] >= Len(menu_cache)
           THEN Panic("GetLayout", "index out of bounds")
           ELSE /\ reply' =
                      [kind |-> "ok", value |-> "GetLayout", why |-> "none",
                       revision |-> revision,
                       id |-> index2id(id2index(parent_id)[1]),
                       tree |-> to_dbusmenu_variant(
                                   menu_cache, id2index(parent_id)[1],
                                   IF recursion_depth < 0 THEN None
                                   ELSE Some(recursion_depth), {})]
                /\ UNCHANGED <<tray, tray_status, menu_cache, item_id_offset,
                               revision, prop_cache, pc, emitted, cyc, retired, nmut>>
                /\ UNCHANGED <<handle_vars, watcher_vars, menu_vars>>

\* The engine serving GetLayout between the cycles that clicks run.
NextLayout ==
    \/ Event
    \/ GetLayout
    \/ UpdateProperties
    \/ UpdateMenu

SpecLayout == InitGroup /\ [][NextLayout]_vars


\* ================================================================ properties
\* The comparison of two tables, stated position by position.
ChildsDifferAt(old_menu, new_menu, i) ==
    OldAt(old_menu, i).childs /= Row(new_menu, i).childs

ChildsDiffer(old_menu, new_menu) ==
    \E i \in 0 .. Len(new_menu) - 1 : ChildsDifferAt(old_menu, new_menu, i)

FirstChildsDiffer(old_menu, new_menu) ==
    CHOOSE i \in 0 .. Len(new_menu) - 1 :
        /\ ChildsDifferAt(old_menu, new_menu, i)
        /\ \A j \in 0 .. i - 1 : ~ChildsDifferAt(old_menu, new_menu, j)

PropsDiffer(old_menu, new_menu) ==
    \E i \in 0 .. Len(new_menu) - 1 :
        diff(OldAt(old_menu, i).item, Row(new_menu, i).item) /= None

Count(msgs, sig) == Cardinality({i \in DOMAIN msgs : msgs[i].sig = sig})

\* C1: an id other than 0 that named a row of a table replaced by a layout
\* change does not resolve through id2index, then and after every later cycle.
C1_Invalidation == \A id \in retired : id /= 0 /\ id2index(id) = None

\* C1 witness: two layout changes have happened and ids were retired.
C1_Witness == revision >= 2 /\ Cardinality(retired) >= 2 /\ pc = "idle"

\* C2: for every id other than 0, id2index(id) is defined iff
\* offset < id < offset + len(table).
C2_DefinedIffInRange ==
    \A id \in Ids \ {0} :
        (id2index(id) /= None)
            <=> (item_id_offset < id /\ id < item_id_offset + Len(menu_cache))

\* C3: over a cycle offset and revision change together or not at all; they
\* change exactly when the cycle found a layout change, revision by 1 and
\* offset by the length of the table in use before; outside update_menu they
\* stay as they are.
C3_OffsetRevisionTogether ==
    IF cyc.done
    THEN IF cyc.layout_updated
         THEN /\ revision = cyc.rev0 + 1
              /\ item_id_offset = cyc.offset0 + Len(cyc.table0)
              /\ ChildsDiffer(cyc.table0, menu_cache)
         ELSE /\ revision = cyc.rev0
              /\ item_id_offset = cyc.offset0
              /\ ~ChildsDiffer(cyc.table0, menu_cache)
    ELSE revision = cyc.rev0 /\ item_id_offset = cyc.offset0

\* C3 witness: a second layout change, over a table of several rows.
C3_Witness ==
    /\ cyc.done /\ cyc.layout_updated
    /\ cyc.rev0 >= 1 /\ Len(cyc.table0) >= 3
    /\ item_id_offset = cyc.offset0 + Len(cyc.table0)

\* C4: from a producer's mutation of the tray to the end of the update that
\* follows it, no other producer mutates the tray.
C4_AtomicCycle == [][MidCycle => tray' = tray]_vars

\* C8: a cycle over the menu hands over LayoutUpdated once and nothing else
\* when some row's childs differ, ItemsPropertiesUpdated once and nothing else
\* when only properties differ, and no menu message when nothing differs.
C8_OneOutcome ==
    cyc.done =>
        LET layout == Count(emitted, "LayoutUpdated")
            props == Count(emitted, "ItemsPropertiesUpdated")
        IN IF ChildsDiffer(cyc.table0, menu_cache)
           THEN layout = 1 /\ props = 0
           ELSE IF PropsDiffer(cyc.table0, menu_cache)
                THEN layout = 0 /\ props = 1
                ELSE layout = 0 /\ props = 0

\* C8 witness: a cycle that met a property delta and then a layout change.
C8_Witness ==
    /\ cyc.done
    /\ ChildsDiffer(cyc.table0, menu_cache)
    /\ \E i \in 0 .. cyc.examined - 1 :
           i < Len(menu_cache)
           /\ diff(OldAt(cyc.table0, i).item, Row(menu_cache, i).item) /= None
    /\ Count(emitted, "LayoutUpdated") = 1

\* C9: the cycle signals a layout change iff the childs of some row of the new
\* table differ from those of the row at the same position of the old one; the
\* comparison ends at the first such position; LayoutUpdated carries the
\* revision as already incremented.
C9_LayoutChangedIff ==
    cyc.done =>
        IF ChildsDiffer(cyc.table0, menu_cache)
        THEN /\ cyc.layout_updated
             /\ cyc.examined = FirstChildsDiffer(cyc.table0, menu_cache) + 1
             /\ \E i \in DOMAIN emitted :
                    /\ emitted[i].sig = "LayoutUpdated"
                    /\ emitted[i].body = [parent |-> 0, revision |-> cyc.rev0 + 1]
             /\ revision = cyc.rev0 + 1
        ELSE /\ ~cyc.layout_updated
             /\ cyc.examined = Len(menu_cache)
             /\ Count(emitted, "LayoutUpdated") = 0

\* C9 witness: a layout change found before the last row of the new table.
C9_Witness ==
    /\ cyc.done /\ cyc.layout_updated
    /\ cyc.examined < Len(menu_cache)
    /\ cyc.examined >= 2
    /\ cyc.rev0 >= 1

\* C10: a mutation that changes nothing observable, followed by its cycle with
\* no other mutation in between, hands over no message and leaves offset and
\* revision as they were.
C10_Idempotence ==
    (cyc.done /\ cyc.noop /\ ~cyc.intruded) =>
        /\ emitted = <<>>
        /\ item_id_offset = cyc.offset0
        /\ revision = cyc.rev0

\* C10 witness: such a cycle, run by update_immediately after a mutation, on a
\* tray whose menu has rows.
C10_Witness ==
    /\ cyc.done /\ cyc.noop /\ ~cyc.intruded
    /\ cyc.source = "update_immediately"
    /\ nmut >= 1
    /\ Len(menu_cache) >= 3

\* The update call of handle h has had its closure run by the service loop.
Applied(h) == \E a \in applied : a.call = caller[h].call

C6_UpdateResult ==
    \A h \in Handles :
        /\ (caller[h].kind = "update" /\ caller[h].last = "update") =>
               IF caller[h].result = None
               THEN ~Applied(h) /\ ~conn_open
               ELSE \E a \in applied :
                        a.call = caller[h].call /\ caller[h].result = Some(a.ret)
        /\ (caller[h].kind = "update" /\ caller[h].after_stop) =>
               /\ caller[h].pc = "idle"
               /\ caller[h].last = "update"
               /\ caller[h].result = None

\* C6 witness: one handle shut the service down, and an update made on
\* another handle after the loop had stopped returned None; the tray has the
\* changes of an earlier update only.
C6_Witness ==
    \E h \in Handles, g \in Handles :
        /\ g /= h
        /\ caller[g].kind = "shutdown"
        /\ caller[h].kind = "update" /\ caller[h].after_stop
        /\ caller[h].last = "update" /\ caller[h].result = None
        /\ ~Applied(h)
        /\ applied /= {}

C11_UnknownIdIsInvalidArgs ==
    (reply.value \in {"Event", "GetProperty"}
        /\ reply.why \in {"id not found", "index out of bounds"}) =>
        /\ reply.kind = "invalid_args"
        /\ pc /= "panicked"

\* C12: a GetGroupProperties naming a stale or out-of-range id is answered
\* with an invalid-argument error; the service is unaffected.
C12_GroupUnknownIdIsInvalidArgs ==
    (reply.value = "GetGroupProperties"
        /\ reply.why \in {"id not found", "index out of bounds"}) =>
        /\ reply.kind = "invalid_args"
        /\ pc /= "panicked"

\* What the claims mean by an id that resolves, at the time of the call: the
\* root, or an id strictly between the offset and the offset plus the length
\* of the table.
ResolvedAtCall(id) ==
    id = 0 \/ (group.offset0 < id /\ id < group.offset0 + group.len0)

IdsOf(events) == [i \in DOMAIN events |-> events[i].id]

\* C13: an EventGroup batch with at least one resolving entry succeeds; every
\* resolving clicked entry has had its row's handler invoked once, in batch
\* order, and the not-found list is the ids of the entries that did not
\* resolve, in batch order.  Batches that click id 0 are left to C15.
C13_BestEffort ==
    LET Res(e) == ResolvedAtCall(e.id)
        NotRes(e) == ~ResolvedAtCall(e.id)
        IsClick(e) == e.event_id = "clicked"
        res == SelectSeq(group.events, Res)
    IN (/\ group.status /= "none"
        /\ res /= <<>>
        /\ \A i \in DOMAIN group.events : group.events[i].id /= 0) =>
          /\ ~(reply.kind = "panic" /\ reply.value = "EventGroup")
          /\ group.status \in {"running", "ok"}
          /\ group.status = "ok" =>
                /\ IdsOf(group.handled) = IdsOf(SelectSeq(res, IsClick))
                /\ group.not_found = IdsOf(SelectSeq(group.events, NotRes))

\* C14: an EventGroup call is answered with the invalid-argument error exactly
\* when none of its entries resolves, the empty batch included; that answer
\* comes with no handler invoked, nothing emitted and the tray, the table, the
\* fingerprints, the offset and the revision as they were.
C14_HardFailureIff ==
    /\ [](group.status /= "none" =>
            /\ (group.status = "invalid_args")
                  <=> (\A i \in DOMAIN group.events :
                          ~ResolvedAtCall(group.events[i].id))
            /\ (group.status = "invalid_args" => group.handled = <<>>))
    /\ [][(group' /= group /\ group'.status = "invalid_args") =>
            /\ pc' = "idle"
            /\ UNCHANGED <<tray, menu_cache, prop_cache, item_id_offset, revision,
                           emitted, cyc, nmut>>]_vars

\* C14 witness: after a layout change, a batch of two stale ids, one of them
\* retired by that change, was answered with the error.
C14_Witness ==
    /\ group.status = "invalid_args"
    /\ Len(group.events) = 2
    /\ revision >= 1
    /\ \E i \in DOMAIN group.events : group.events[i].id \in retired

\* C15: no click handler is ever invoked with row 0; a click naming id 0, in
\* an Event or in an EventGroup entry, stops the service with the assertion
\* message and leaves the tray and the caches as they were.
C15_RootNotClickable ==
    /\ [](/\ cyc.row /= 0
          /\ \A i \in DOMAIN group.handled : group.handled[i].row /= 0
          /\ (reply.why = "ROOT MENU ITEM CLICKED" => pc = "panicked"))
    /\ [][(reply'.why = "ROOT MENU ITEM CLICKED" /\ reply' /= reply) =>
            UNCHANGED <<tray, menu_cache, prop_cache, item_id_offset, revision,
                        emitted, cyc, nmut>>]_vars

\* C15 witness: a batch clicked a row and then the root: the first click ran
\* its cycle, the second stopped the service.
C15_Witness ==
    /\ reply.why = "ROOT MENU ITEM CLICKED"
    /\ reply.value = "EventGroup"
    /\ Len(group.handled) = 1
    /\ cyc.done /\ cyc.row > 0

\* ------------------------------------------------- startup and the watcher
Vanished(call) == call.reason = "Vanished"
ReturnedFalse == \E i \in DOMAIN offline_calls : ~offline_calls[i].keep

C17_RelaxedAbsentStartsOffline ==
    /\ []((assume_sni_available /\ first = "ServiceUnknown") =>
            /\ spawned = "handle"
            /\ actor \in {"running", "stopped", "failed"}
            /\ offline_calls /= <<>>
            /\ Head(offline_calls).reason = "ServiceUnknown"
            /\ \A i \in DOMAIN offline_calls :
                   offline_calls[i].reason = "ServiceUnknown" => i = 1
            /\ (Head(offline_calls).keep /\ actor = "stopped") =>
                   (shut /= "none" \/ \E i \in 2 .. Len(offline_calls) :
                                          ~offline_calls[i].keep)
            /\ ~Head(offline_calls).keep => stop)
    /\ [][(assume_sni_available /\ first = "none" /\ first' = "ServiceUnknown") =>
            /\ watcher' = "Offline"
            /\ actor' = "running"
            /\ online_calls' = online_calls]_vars
    /\ ((assume_sni_available /\ first = "ServiceUnknown"
            /\ ~Head(offline_calls).keep) ~> (actor \in {"stopped", "failed"}))

\* C17 witness: relaxed mode, the watcher absent, the callback returned true
\* and the loop is running in Offline with nothing else having happened.
C17_Witness ==
    /\ assume_sni_available
    /\ first = "ServiceUnknown"
    /\ offline_calls = <<OfflineCall("ServiceUnknown", TRUE)>>
    /\ actor = "running"
    /\ watcher = "Offline"
    /\ ~stop

C20_RuntimeLoss ==
    /\ [][(actor = "running" /\ signals /= <<>> /\ signals' = Tail(signals)) =>
            IF Head(signals) = "vanished"
            THEN /\ Len(offline_calls') = Len(offline_calls) + 1
                 /\ Vanished(offline_calls'[Len(offline_calls')])
                 /\ watcher' = "Offline"
                 /\ actor' = "running"
                 /\ IF offline_calls'[Len(offline_calls')].keep
                    THEN stop' = stop
                    ELSE stop'
            ELSE /\ registrations' = registrations + 1
                 /\ offline_calls' = offline_calls
                 /\ (bus = "online" => watcher' = "Registered")]_vars
    /\ []((stop \/ actor = "stopped") => (shut /= "none" \/ ReturnedFalse))
    /\ []((actor = "running" /\ signals /= <<>>) =>
              <>(signals = <<>> \/ actor \in {"stopped", "failed"}))

\* C20 witness: the watcher disappeared, the callback returned true, the
\* watcher came back and the running service has registered again.
C20_Witness ==
    /\ offline_calls = <<OfflineCall("Vanished", TRUE)>>
    /\ appeared = 1
    /\ registrations = 2
    /\ watcher = "Registered"
    /\ actor = "running"
    /\ ~stop

\* C21: every presence-appeared event the running service handles makes one
\* registration attempt and one call of the online callback, no more; when the
\* attempt fails the service neither stops nor is asked to stop, and no
\* offline callback is made for it.
C21_OneReRegistration ==
    /\ [](first /= "none" =>
            /\ registrations = 1 + appeared
            /\ online_calls = (IF first = "Ok" THEN 1 ELSE 0) + appeared)
    /\ [][appeared' /= appeared =>
            /\ appeared' = appeared + 1
            /\ actor = "running" /\ actor' = "running"
            /\ stop' = stop
            /\ offline_calls' = offline_calls
            /\ spawned' = spawned]_vars

\* C21 witness: the watcher came back and was gone again before the service
\* handled the first event: the one attempt failed, the service is running.
C21_Witness ==
    /\ appeared = 1
    /\ registrations = 2
    /\ bus = "absent"
    /\ watcher = "Offline"
    /\ actor = "running"
    /\ ~stop

C23_ShutdownCompletes ==
    /\ ((shut = "requested") ~> (shut = "done"))
    /\ [](shut = "done" => actor \in {"stopped", "failed"})
    /\ [][shut = "none" /\ shut' = "requested" => stop']_vars

\* C23 witness: the offline callback returned false, the loop ended, and a
\* shutdown asked for after that has completed.
C23_Witness ==
    /\ shut = "done"
    /\ shut_at = "stopped"
    /\ ReturnedFalse
    /\ exit = "Ok"

\* The rows below row i of a table: its children's rows and theirs.
RECURSIVE Below(_, _)
Below(table, i) ==
    LET cs == Row(table, i).childs
        RECURSIVE Sum(_)
        Sum(k) == IF k = 0 THEN 0 ELSE Sum(k - 1) + 1 + Below(table, cs[k])
    IN Sum(Len(cs))

\* Depth first, parents before children: a row's first child is the next row,
\* and each later child comes right after the whole subtree of the one before.
PreOrder(table) ==
    /\ Len(table) = 1 + Below(table, 0)
    /\ \A i \in 0 .. Len(table) - 1 :
           LET cs == Row(table, i).childs
           IN /\ cs /= <<>> => cs[1] = i + 1
              /\ \A k \in 1 .. Len(cs) - 1 :
                     cs[k + 1] = cs[k] + 1 + Below(table, cs[k])

HasRow(node) == node.kind /= "RadioGroup"

RawOf(node) ==
    CASE node.kind = "Standard" -> RawFromStandard(node)
      [] node.kind = "Sepatator" -> RawSepatator
      [] node.kind = "Checkmark" -> RawFromCheckmark(node)
      [] node.kind = "SubMenu" -> RawFromSubMenu(node)

\* Row i's child list names the rows of the nodes' items, one by one and in
\* the order of the menu, and so on below each of them.
RECURSIVE Mirrors(_, _, _)
Mirrors(table, i, nodes) ==
    LET ns == SelectSeq(nodes, HasRow)
        cs == Row(table, i).childs
    IN /\ Len(cs) = Len(ns)
       /\ \A k \in 1 .. Len(ns) :
              /\ cs[k] \in 1 .. Len(table) - 1
              /\ Row(table, cs[k]).item = RawOf(ns[k])
              /\ Mirrors(table, cs[k], ns[k].submenu)

RECURSIVE NumNodes(_)
NumNodes(nodes) ==
    IF nodes = <<>> THEN 0
    ELSE 1 + NumNodes(Head(nodes).submenu) + NumNodes(Tail(nodes))

\* C25 as claimed: menu_flatten answers every menu, the empty one with the
\* root row alone, and the table has one row per node of the menu, of
\* whatever kind, and the root row.
C25_OneRowPerNode ==
    list /= <<>> =>
        /\ Len(list) = 1 + NumNodes(items)
        /\ items = <<>> => list = << MkRow(RawMenuItemDefault, <<>>) >>

\* The items of a layout: the one returned and all those under it.
RECURSIVE ItemsOf(_)
ItemsOf(r) == {r} \cup UNION {ItemsOf(r.children[k]) : k \in DOMAIN r.children}

\* C26 as claimed: in what to_dbusmenu_variant returns, an item is tagged
\* children-display = submenu iff its row has a child row, whether or not the
\* depth asked for puts the children into the response.
C26_ParentsAreTagged ==
    variant /= None =>
        \A it \in ItemsOf(variant[1].r) :
            (it.children_display = "submenu") <=> (Row(list, it.id).childs /= <<>>)

\* C27: whatever the offset has become, every row index of the table comes
\* back from its id, id2index(index2id(i)) = Some(i); the root's id is 0 and
\* id 0 resolves to row 0.
C27_RoundTrip ==
    /\ \A i \in 0 .. Len(menu_cache) - 1 : id2index(index2id(i)) = Some(i)
    /\ index2id(0) = 0
    /\ id2index(0) = Some(0)

\* C27 witness: two layout changes have moved the offset and the table has
\* rows besides the root.
C27_Witness ==
    /\ revision >= 2
    /\ item_id_offset >= 2
    /\ Len(menu_cache) >= 3
    /\ pc = "idle"

\* The tables differ in the toggle state of the checkmark at row i and in
\* nothing else.
OnlyToggled(old_menu, new_menu, i) ==
    /\ Len(old_menu) = Len(new_menu)
    /\ i \in 1 .. Len(new_menu) - 1
    /\ \A j \in 0 .. Len(new_menu) - 1 :
           /\ Row(old_menu, j).childs = Row(new_menu, j).childs
           /\ j /= i => Row(old_menu, j).item = Row(new_menu, j).item
    /\ Row(new_menu, i).item.toggle_type = "checkmark"
    /\ Row(old_menu, i).item.toggle_state /= Row(new_menu, i).item.toggle_state
    /\ [Row(old_menu, i).item EXCEPT !.toggle_state = Row(new_menu, i).item.toggle_state]
           = Row(new_menu, i).item

\* C28: a cycle whose table differs from the one before only in the toggle
\* state of one checkmark hands over one ItemsPropertiesUpdated and no
\* LayoutUpdated; the message has one entry, the id index + offset of that row
\* with its new toggle-state, and removes nothing; revision and offset stay.
C28_ToggleIsOneDelta ==
    cyc.done =>
        \A i \in 1 .. Len(menu_cache) - 1 :
            OnlyToggled(cyc.table0, menu_cache, i) =>
                /\ Count(emitted, "LayoutUpdated") = 0
                /\ Count(emitted, "ItemsPropertiesUpdated") = 1
                /\ \A k \in DOMAIN emitted :
                       emitted[k].sig = "ItemsPropertiesUpdated" =>
                           /\ emitted[k].body.updated_props =
                                  << <<i + cyc.offset0,
                                       ("toggle-state" :>
                                            Row(menu_cache, i).item.toggle_state)>> >>
                           /\ emitted[k].body.removed_props = <<>>
                /\ revision = cyc.rev0
                /\ item_id_offset = cyc.offset0

\* C28 witness: after a layout change moved the offset, a cycle that only
\* toggled the checkmark.
C28_Witness ==
    /\ cyc.done
    /\ cyc.offset0 > 0
    /\ \E i \in 1 .. Len(menu_cache) - 1 : OnlyToggled(cyc.table0, menu_cache, i)

\* The leaf replaced in the cycle became a submenu that has items.
RECURSIVE GotItems(_, _)
GotItems(old_nodes, new_nodes) ==
    \E k \in DOMAIN new_nodes :
        /\ old_nodes[k] /= new_nodes[k]
        /\ IF old_nodes[k].kind = "SubMenu"
           THEN GotItems(old_nodes[k].submenu, new_nodes[k].submenu)
           ELSE new_nodes[k].submenu /= <<>>

\* C29 as claimed: a cycle after a leaf was replaced by a submenu (with items
\* in it), wherever the leaf was, hands over LayoutUpdated with the revision
\* one more than before and moves the offset by the length of the old table.
C29_LeafToSubmenuIsLayout ==
    (cycle /= None /\ GotItems(cycle[1].items0, items)) =>
        /\ cycle[1].msgs =
               << Msg("LayoutUpdated", [parent |-> 0, revision |-> revision + 1]) >>
        /\ cycle[1].revision = revision + 1
        /\ cycle[1].item_id_offset = item_id_offset + Len(cycle[1].table0)

HasSignal(msgs, sig) == \E k \in DOMAIN msgs : msgs[k].sig = sig

\* The PropertiesChanged of an interface among msgs has an entry of that name.
HasEntry(msgs, interface_name, name) ==
    \E k \in DOMAIN msgs :
        /\ msgs[k].sig = "PropertiesChanged"
        /\ msgs[k].body.interface_name = interface_name
        /\ \E e \in DOMAIN msgs[k].body.changed_properties :
               msgs[k].body.changed_properties[e].name = name

\* C30: update_properties notifies of a property of the tray iff the tray's
\* value differs from what the cache holds of it, each property by itself:
\* its own signal for title, status, the icons and the tooltip, its own entry
\* of PropertiesChanged for category, window id, text direction and icon theme
\* path; no signal goes out twice, and the cache then holds the tray's values.
C30_PerPropertyNotification ==
    [][(pc = "mutated" /\ pc' = "props_done") =>
        LET sent == SubSeq(emitted', Len(emitted) + 1, Len(emitted'))
            sni == "org.kde.StatusNotifierItem"
            dbusmenu == "com.canonical.dbusmenu"
        IN /\ HasSignal(sent, "NewTitle") <=> (prop_cache.title /= hash_of(tray.title))
           /\ HasSignal(sent, "NewStatus") <=> (prop_cache.status /= tray.status)
           /\ HasEntry(sent, dbusmenu, "Status") <=> (prop_cache.status /= tray.status)
           /\ HasSignal(sent, "NewIcon") <=> (prop_cache.icon /= hash_of(tray.icon))
           /\ HasSignal(sent, "NewOverlayIcon") <=>
                  (prop_cache.overlay_icon /= hash_of(tray.overlay_icon))
           /\ HasSignal(sent, "NewAttentionIcon") <=>
                  (prop_cache.attention_icon /= hash_of(tray.attention_icon))
           /\ HasSignal(sent, "NewToolTip") <=>
                  (prop_cache.tool_tip /= hash_of(tray.tool_tip))
           /\ HasEntry(sent, sni, "Category") <=> (prop_cache.category /= tray.category)
           /\ HasEntry(sent, sni, "WindowId") <=> (prop_cache.window_id /= tray.window_id)
           /\ HasEntry(sent, dbusmenu, "TextDirection") <=>
                  (prop_cache.text_direction /= tray.text_direction)
           /\ HasEntry(sent, sni, "IconThemePath") <=>
                  (prop_cache.icon_theme_path /= hash_of(tray.icon_theme_path))
           /\ HasEntry(sent, dbusmenu, "IconThemePath") <=>
                  (prop_cache.icon_theme_path /= hash_of(tray.icon_theme_path))
           /\ \A sig \in {"NewTitle", "NewStatus", "NewIcon", "NewOverlayIcon",
                          "NewAttentionIcon", "NewToolTip"} : Count(sent, sig) <= 1
           /\ prop_cache' = PropertiesCacheNew(tray)]_vars

\* C30 witness: one update_properties found title and status changed and
\* nothing else: NewTitle and NewStatus went out, no NewToolTip, no NewIcon.
C30_Witness ==
    /\ pc = "props_done"
    /\ Count(emitted, "NewTitle") = 1
    /\ Count(emitted, "NewStatus") = 1
    /\ ~HasSignal(emitted, "NewToolTip")
    /\ ~HasSignal(emitted, "NewIcon")
    /\ ~HasEntry(emitted, "org.kde.StatusNotifierItem", "Category")

\* C31: the step that completes a diff cycle leaves the cached table equal to
\* the flattening of the tray's current menu, click handlers included, and
\* every cached fingerprint of a tray property equal to that of the tray's
\* current value.
C31_CacheIsCurrent ==
    [][(pc = "props_done" /\ pc' /= "props_done")
          => /\ menu_cache' = menu_flatten(menu(tray'))
             /\ prop_cache' = PropertiesCacheNew(tray')]_vars

\* C32: a completed cycle whose fresh table differs in length from the table
\* it replaced has reported a layout change: the offset is advanced by the
\* old table's length, the revision is one higher and LayoutUpdated is
\* handed over once.
C32_LengthChangeIsLayout ==
    (cyc.done /\ Len(menu_cache) /= Len(cyc.table0)) =>
        /\ cyc.layout_updated
        /\ revision = cyc.rev0 + 1
        /\ item_id_offset = cyc.offset0 + Len(cyc.table0)
        /\ Count(emitted, "LayoutUpdated") = 1

\* C32 witness: a cycle has swapped in a table longer than the one it replaced.
C32_Witness ==
    /\ cyc.done /\ pc = "idle"
    /\ Len(menu_cache) > Len(cyc.table0)
    /\ cyc.layout_updated

\* C33: a GetProperty naming a row that resolves and a property that row does
\* not carry is answered with an error, and the service keeps serving.
C33_AbsentPropertyIsError ==
    (reply.value = "GetProperty" /\ reply.why = "property not found") =>
        /\ reply.kind = "invalid_args"
        /\ pc /= "panicked"

\* C34: when an EventGroup call that applied an event returns, the diff cycle
\* that announces what its events changed has run after the last of them:
\* the table and the fingerprints describe the tray as the call leaves it.
C34_CycleBeforeReturn ==
    [][(group.status \in {"running", "zrunning"} /\ group'.status = "ok"
          /\ group.handled /= <<>>)
        => /\ cyc.done
           /\ prop_cache = PropertiesCacheNew(tray)
           /\ menu_cache = menu_flatten(menu(tray))]_vars

\* C35: no appearance of the watcher is missed: while the service that started
\* without a watcher runs and the watcher is on the bus, the item is
\* registered or the presence-appeared event that leads to the registration
\* attempt and the online callback is waiting to be handled.
C35_NoAppearanceMissed ==
    (first = "ServiceUnknown" /\ actor = "running" /\ bus = "online") =>
        \/ watcher = "Registered"
        \/ \E i \in DOMAIN signals : signals[i] = "appeared"

\* C36: the revision a GetLayout returns is the revision carried by the most
\* recently emitted LayoutUpdated signal, or 0 when none has been emitted.
C36_RevisionIsAnnounced ==
    [][(reply' /= reply /\ reply'.value = "GetLayout" /\ reply'.kind = "ok")
          => reply'.revision = cyc.announced]_vars

\* C36 witness: after a layout change and a later cycle that changed no
\* layout, a GetLayout for a row below the root returned revision 1.
C36_Witness ==
    /\ reply.value = "GetLayout" /\ reply.kind = "ok"
    /\ reply.revision = 1
    /\ reply.id > 0
    /\ cyc.announced = 1
    /\ cyc.done /\ ~cyc.layout_updated
    /\ pc = "idle"

\* C37: a GetLayout whose parentId names no row (stale, negative, or at or
\* past offset + len) is answered with an invalid-argument error and the
\* service keeps serving.
C37_UnknownParentIsInvalidArgs ==
    (reply.value = "GetLayout"
        /\ reply.why \in {"id not found", "index out of bounds"}) =>
        /\ reply.kind = "invalid_args"
        /\ pc /= "panicked"

\* What the getter of the object a PropertiesChanged is emitted on returns.
PropertyGet(interface_name, t, name) ==
    IF interface_name = "com.canonical.dbusmenu" THEN DbusmenuGet(t, name)
    ELSE StatusNotifierItemGet(t, name)

\* C38: every entry of a PropertiesChanged that update_properties hands over
\* holds, in type and content, what the getter of that property on the same
\* object returns for the tray as it is then.
C38_AnnouncedIsGot ==
    [][(pc = "mutated" /\ pc' = "props_done") =>
          \A k \in DOMAIN emitted' :
              emitted'[k].sig = "PropertiesChanged" =>
                  \A e \in DOMAIN emitted'[k].body.changed_properties :
                      LET entry == emitted'[k].body.changed_properties[e]
                          got == PropertyGet(emitted'[k].body.interface_name,
                                             tray', entry.name)
                      IN entry.value.type = got.type /\ entry.value.v = got.v]_vars

\* C39: identity arithmetic never wraps: a structural change never takes the
\* offset around to a smaller value (from where the identities issued before
\* would come to resolve again); the bump goes up or the service fails.
C39_OffsetNeverWraps == [][item_id_offset' >= item_id_offset]_vars

====
